---- MODULE Spec2Model ----
(***************************************************************************)
(* envcfg: a Loader holds a registry of parsers keyed by produced type     *)
(* (RegisterParser) and populates the tagged fields of a struct from a     *)
(* map[string]string (LoadFromMap).  Go strings are modelled as tuples of  *)
(* one-character strings so that strings.Split is computed, not assumed.   *)
(***************************************************************************)
EXTENDS Integers, Sequences, FiniteSets, TLC

\* parsers, target, conf, last: a Loader's parsers map, the record a caller
\* hands to it, the record's contents, and what the last call did.
\* environ: the process environment (os.Environ()).
\* loaders, heap: the Loaders made with New() and Empty(), each holding a
\* reference to its parsers map, and the maps those references point to.
\* recv: the receiver of the last call (0: the Loader whose map is parsers).
\* goroutines: the LoadFromMap calls in progress on goroutines of their own.
\* tmpl: the body of the one template object the built-in ParseTemplate
\* parses into and returns (template.New("") evaluated once).
\* pkg: the package's own variables: DefaultParsers, the exported list New
\* registers, and how far the package's init() has got.
VARIABLES parsers, target, conf, last, environ, loaders, heap, recv, goroutines, tmpl, pkg

vars == <<parsers, target, conf, last, environ, loaders, heap, recv, goroutines, tmpl, pkg>>

\* Longest struct the model populates (number of declared fields).
MaxFields == 2

(***************************************************************************)
(* Strings and tags                                                        *)
(***************************************************************************)
cfgTag == "env"
defaultTag == "default"
tagSep == ","
stringType == "string"

RECURSIVE SplitAcc(_, _)
SplitAcc(s, cur) ==
    IF s = <<>> THEN <<cur>>
    ELSE IF Head(s) = tagSep THEN <<cur>> \o SplitAcc(Tail(s), <<>>)
    ELSE SplitAcc(Tail(s), Append(cur, Head(s)))

\* strings.Split(s, tagSep): the pieces between separators; one empty piece
\* for the empty string.
Split(s) == SplitAcc(s, <<>>)

(***************************************************************************)
(* Values, errors                                                          *)
(***************************************************************************)
\* A Go value of a field type: n carries an int, s the text a struct holds.
Value(t, n, s) == [t |-> t, n |-> n, s |-> s]

\* The zero value of a type (what a fresh struct field holds).
Zero(t) == Value(t, 0, <<>>)

\* One error message; the fields a message does not use stay empty.
NoMsg ==
    [kind |-> "", key |-> <<>>, strct |-> "", field |-> <<>>, type |-> "",
     fn |-> "", detail |-> "", tag |-> <<>>, dtag |-> <<>>, n |-> 0, m |-> 0]

\* The error value a call returns: nil, one plain error, or a
\* *multierror.Error listing several.
Nil == [agg |-> FALSE, msgs |-> <<>>]
Single(m) == [agg |-> FALSE, msgs |-> <<m>>]

\* ErrorOrNil handing the messages back latest first.
ErrorOrNilLatestFirst(errs) ==
    IF errs = <<>> THEN Nil
    ELSE [agg |-> TRUE, msgs |-> [n \in 1..Len(errs) |-> errs[Len(errs) + 1 - n]]]

\* (*multierror.Error).ErrorOrNil: nil when nothing was appended.
ErrorOrNil(errs) == IF errs = <<>> THEN Nil ELSE [agg |-> TRUE, msgs |-> errs]

(***************************************************************************)
(* Functions handed to RegisterParser                                      *)
(***************************************************************************)
\* reflect.Type of a candidate: its kind, parameter types, result types.
Fn(name, kind, ins, outs) == [name |-> name, kind |-> kind, in |-> ins, out |-> outs]

Funcs ==
    { Fn("ParseInt", "func", <<"string">>, <<"int", "error">>),
      Fn("fooOK", "func", <<"string">>, <<"foo", "error">>),
      Fn("fooPanic", "func", <<"string">>, <<"foo", "error">>),
      Fn("foo2", "func", <<"string", "string">>, <<"foo", "error">>),
      Fn("barOK", "func", <<"string">>, <<"bar", "error">>),
      Fn("notFunc", "string", <<>>, <<>>),
      Fn("noArgs", "func", <<>>, <<"foo", "error">>),
      Fn("intArg", "func", <<"int">>, <<"foo", "error">>),
      Fn("mixedArgs", "func", <<"string", "int">>, <<"foo", "error">>),
      Fn("threeOut", "func", <<"string">>, <<"foo", "string", "error">>),
      Fn("secondNotError", "func", <<"string">>, <<"foo", "string">>) }

\* A built-in: a function of one string returning (t, error).
BuiltIn(name, t) == Fn(name, "func", <<"string">>, <<t, "error">>)

\* var DefaultParsers: the built-in parsers, in the order of the list.
DefaultParsers ==
    << BuiltIn("ParseBool", "bool"), BuiltIn("ParseString", "string"),
       BuiltIn("ParseInt", "int"), BuiltIn("ParseFloat32", "float32"),
       BuiltIn("ParseFloat64", "float64"), BuiltIn("ParseInt8", "int8"),
       BuiltIn("ParseInt16", "int16"), BuiltIn("ParseInt32", "int32"),
       BuiltIn("ParseInt64", "int64"), BuiltIn("ParseUint", "uint"),
       BuiltIn("ParseUint8", "uint8"), BuiltIn("ParseUint16", "uint16"),
       BuiltIn("ParseUint32", "uint32"), BuiltIn("ParseUint64", "uint64"),
       BuiltIn("ParseDuration", "Duration"), BuiltIn("ParseTime", "Time"),
       BuiltIn("ParseURL", "*URL"), BuiltIn("ParseMAC", "HardwareAddr"),
       BuiltIn("ParseIP", "IP"), BuiltIn("ParseEmailAddress", "*Address"),
       BuiltIn("ParseEmailAddressList", "[]*Address"),
       BuiltIn("ParseTemplate", "*Template"), BuiltIn("ParseBytes", "[]byte") >>

\* The package once its variables are initialised and init() has returned:
\* defaultLoader is set.
Initialised == [DefaultParsers |-> DefaultParsers, init |-> "done", defaultLoader |-> "set"]

\* Types whose method set satisfies the error interface.
ImplementsError(t) == t = "error"

Digits == {"0", "1", "2", "3", "4", "5", "6", "7", "8", "9"}

DigitVal(c) ==
    CASE c = "0" -> 0 [] c = "1" -> 1 [] c = "2" -> 2 [] c = "3" -> 3
      [] c = "4" -> 4 [] c = "5" -> 5 [] c = "6" -> 6 [] c = "7" -> 7
      [] c = "8" -> 8 [] c = "9" -> 9

RECURSIVE DecimalAcc(_, _)
DecimalAcc(s, acc) ==
    IF s = <<>> THEN acc ELSE DecimalAcc(Tail(s), 10 * acc + DigitVal(Head(s)))

\* What a call of the function returns: a panic, a non-nil error, or a value.
Outcome(panics, p, isErr, errText, val) ==
    [panics |-> panics, p |-> p, isErr |-> isErr, errText |-> errText, val |-> val]

\* strconv.Atoi on the strings the model supplies: optional sign, then one
\* or more decimal digits.
Atoi(s) ==
    LET signed == s # <<>> /\ Head(s) \in {"+", "-"}
        body == IF signed THEN Tail(s) ELSE s
    IN  IF body = <<>> \/ \E k \in 1..Len(body) : body[k] \notin Digits
        THEN Outcome(FALSE, "", TRUE, "invalid syntax", Zero("int"))
        ELSE Outcome(FALSE, "", FALSE, "",
                     Value("int",
                           IF signed /\ Head(s) = "-"
                           THEN 0 - DecimalAcc(body, 0) ELSE DecimalAcc(body, 0),
                           <<>>))

\* ParseTemplate = template.New("").Parse is a method value: its receiver,
\* one *template.Template, is fixed when the package initialises.  Parse
\* makes its argument the body of the receiver and returns the receiver, so
\* what ParseTemplate returns is always the pointer to that one object.
TheTemplate == Value("*Template", 0, <<"&">>)

\* The body of that object after the parser calls of the list, t being its
\* body before them: each ParseTemplate call replaces it by its argument.
RECURSIVE TemplateAfter(_, _)
TemplateAfter(t, calls) ==
    IF calls = <<>> THEN t
    ELSE TemplateAfter(IF Head(calls).fn = "ParseTemplate" THEN Head(calls).args[1] ELSE t,
                       Tail(calls))

\* callable.Call(vals) for each function of Funcs that can be registered.
Call(fname, ss) ==
    CASE fname = "ParseInt" -> Atoi(ss[1])
      [] fname = "ParseString" -> Outcome(FALSE, "", FALSE, "", Value("string", 0, ss[1]))
      [] fname = "ParseTemplate" -> Outcome(FALSE, "", FALSE, "", TheTemplate)
      [] fname = "fooOK" -> Outcome(FALSE, "", FALSE, "", Value("foo", 0, ss[1]))
      [] fname = "fooPanic" -> Outcome(TRUE, "I panicked", FALSE, "", Zero("foo"))
      [] fname = "fooOops" -> Outcome(FALSE, "", TRUE, "oops", Value("foo", 0, ss[1]))
      [] fname = "foo2" ->
            Outcome(FALSE, "", FALSE, "", Value("foo", 0, ss[1] \o <<":">> \o ss[2]))
      [] fname = "barOK" -> Outcome(FALSE, "", FALSE, "", Value("bar", 0, ss[1]))

\* The adapter without its deferred recover: a panic of the function
\* unwinds the caller.
wrappedNoRecover(fname, ss) ==
    IF Call(fname, ss).panics
    THEN [ok |-> FALSE, panics |-> TRUE, val |-> Zero(""), err |-> NoMsg]
    ELSE IF Call(fname, ss).isErr
    THEN [ok |-> FALSE, panics |-> FALSE, val |-> Zero(""),
          err |-> [NoMsg EXCEPT !.kind = "returned", !.detail = Call(fname, ss).errText]]
    ELSE [ok |-> TRUE, panics |-> FALSE, val |-> Call(fname, ss).val, err |-> NoMsg]

\* The adapter returning its named result v, never assigned, in place of
\* the function's first result.
wrappedReturnsZero(fname, ss) ==
    IF Call(fname, ss).panics
    THEN [ok |-> FALSE, panics |-> FALSE, val |-> Zero(""),
          err |-> [NoMsg EXCEPT !.kind = "panicked", !.fn = fname,
                                !.detail = Call(fname, ss).p]]
    ELSE IF Call(fname, ss).isErr
    THEN [ok |-> FALSE, panics |-> FALSE, val |-> Zero(""),
          err |-> [NoMsg EXCEPT !.kind = "returned", !.detail = Call(fname, ss).errText]]
    ELSE [ok |-> TRUE, panics |-> FALSE, val |-> Zero(""), err |-> NoMsg]

\* The adapter RegisterParser stores: recovers a panic into an error, turns
\* a returned error into its text, otherwise hands the value back.  panics
\* says whether the call of the adapter itself ends in a panic.
wrapped(fname, ss) ==
    LET r == Call(fname, ss)
    IN  IF r.panics
        THEN [ok |-> FALSE, panics |-> FALSE, val |-> Zero(""),
              err |-> [NoMsg EXCEPT !.kind = "panicked", !.fn = fname, !.detail = r.p]]
        ELSE IF r.isErr
        THEN [ok |-> FALSE, panics |-> FALSE, val |-> Zero(""),
              err |-> [NoMsg EXCEPT !.kind = "returned", !.detail = r.errText]]
        ELSE [ok |-> TRUE, panics |-> FALSE, val |-> r.val, err |-> NoMsg]

(***************************************************************************)
(* Loader                                                                  *)
(***************************************************************************)
\* Empty(): a Loader whose parsers map has no entry.
Empty == [t \in {} |-> [f |-> "", numArgs |-> 0]]

\* The parser struct stored per type.
parser(fname, numArgs) == [f |-> fname, numArgs |-> numArgs]

RegErr(kind, f) == Single([NoMsg EXCEPT !.kind = kind, !.fn = f.name])

\* First parameter that is not a string (the loop returns at the first one).
FirstNonString(f) ==
    CHOOSE n \in 1..Len(f.in) :
        /\ f.in[n] # stringType
        /\ \A k \in 1..(n - 1) : f.in[k] = stringType

\* ShapeError with the parameter-type loop left out.
ShapeErrorSkipsParamTypes(f) ==
    IF f.kind # "func" THEN RegErr("notFunc", f)
    ELSE IF Len(f.in) < 1 THEN [RegErr("wantArgs", f) EXCEPT !.msgs[1].n = Len(f.in)]
    ELSE IF Len(f.out) # 2
    THEN [RegErr("wantTwoReturns", f) EXCEPT !.msgs[1].n = Len(f.out)]
    ELSE IF ~ImplementsError(f.out[2])
    THEN [RegErr("lastNotError", f) EXCEPT !.msgs[1].type = f.out[2]]
    ELSE Nil

\* ShapeError without the check that f has a parameter.
ShapeErrorNoMinimum(f) ==
    IF f.kind # "func" THEN RegErr("notFunc", f)
    ELSE IF \E n \in 1..Len(f.in) : f.in[n] # stringType
    THEN [RegErr("nonStringArg", f) EXCEPT !.msgs[1].type = f.in[FirstNonString(f)]]
    ELSE IF Len(f.out) # 2
    THEN [RegErr("wantTwoReturns", f) EXCEPT !.msgs[1].n = Len(f.out)]
    ELSE IF ~ImplementsError(f.out[2])
    THEN [RegErr("lastNotError", f) EXCEPT !.msgs[1].type = f.out[2]]
    ELSE Nil

\* The checks RegisterParser makes on the shape of f, in the code's order:
\* the error of the first one that fails, Nil when f passes them all.
ShapeError(f) ==
    IF f.kind # "func" THEN RegErr("notFunc", f)
    ELSE IF Len(f.in) < 1 THEN [RegErr("wantArgs", f) EXCEPT !.msgs[1].n = Len(f.in)]
    ELSE IF \E n \in 1..Len(f.in) : f.in[n] # stringType
    THEN [RegErr("nonStringArg", f) EXCEPT !.msgs[1].type = f.in[FirstNonString(f)]]
    ELSE IF Len(f.out) # 2
    THEN [RegErr("wantTwoReturns", f) EXCEPT !.msgs[1].n = Len(f.out)]
    ELSE IF ~ImplementsError(f.out[2])
    THEN [RegErr("lastNotError", f) EXCEPT !.msgs[1].type = f.out[2]]
    ELSE Nil

\* The type a named type is declared from: foo is struct{} and bar is
\* declared as foo, so the two are distinct types with one underlying type.
Underlying(t) == IF t \in {"foo", "bar"} THEN "struct{}" ELSE t

\* The map keyed by underlying type: the entry serves every type declared
\* from the same underlying type as t.
StoreByUnderlying(ps, t, p) ==
    [x \in DOMAIN ps \cup {y \in {"int", "foo", "bar"} : Underlying(y) = Underlying(t)} |->
        IF Underlying(x) = Underlying(t) THEN p ELSE ps[x]]

\* The assignment made on a map built anew: the entries stored before are
\* gone.
StoreResets(ps, t, p) == [x \in {t} |-> p]

\* The assignment keeping an entry already stored for t.
StoreKeepsFirst(ps, t, p) ==
    [x \in DOMAIN ps \cup {t} |-> IF x \in DOMAIN ps THEN ps[x] ELSE p]

\* The parsers map after e.parsers[t] = p.
Store(ps, t, p) == [x \in DOMAIN ps \cup {t} |-> IF x = t THEN p ELSE ps[x]]

\* RegisterParser without the alreadyRegistered check: a later registration
\* replaces the entry.
RegisterParserOverwrites(ps, f) ==
    IF ShapeError(f) # Nil THEN [err |-> ShapeError(f), parsers |-> ps]
    ELSE [err |-> Nil, parsers |-> Store(ps, f.out[1], parser(f.name, Len(f.in)))]

\* RegisterParser looking for an entry of the produced type before it
\* checks the shape.
RegisterParserDuplicateFirst(ps, f) ==
    IF Len(f.out) >= 1 /\ f.out[1] \in DOMAIN ps
    THEN [err |-> [RegErr("alreadyRegistered", f) EXCEPT !.msgs[1].type = f.out[1]],
          parsers |-> ps]
    ELSE IF ShapeError(f) # Nil THEN [err |-> ShapeError(f), parsers |-> ps]
    ELSE [err |-> Nil, parsers |-> Store(ps, f.out[1], parser(f.name, Len(f.in)))]

\* (*Loader).RegisterParser: the error returned and the parsers map after.
RegisterParser(ps, f) ==
    IF ShapeError(f) # Nil THEN [err |-> ShapeError(f), parsers |-> ps]
    ELSE IF f.out[1] \in DOMAIN ps
    THEN [err |-> [RegErr("alreadyRegistered", f) EXCEPT !.msgs[1].type = f.out[1]],
          parsers |-> ps]
    ELSE [err |-> Nil, parsers |-> Store(ps, f.out[1], parser(f.name, Len(f.in)))]

(***************************************************************************)
(* Targets of LoadFromMap                                                  *)
(***************************************************************************)
\* reflect.StructField: name, type and the two tags the loader reads.
Field(type, hasEnv, env, hasDefault, default) ==
    [type |-> type, hasEnv |-> hasEnv, env |-> env,
     hasDefault |-> hasDefault, default |-> default]

KA == <<"A">>
KB == <<"B">>
KAB == <<"A", ",", "B">>

\* Field declarations the structs of the model are built from.
FieldDecls ==
    { Field("bar", FALSE, <<>>, FALSE, <<>>),
      Field("int", TRUE, KA, TRUE, <<"7">>),
      Field("foo", TRUE, KA, FALSE, <<>>),
      Field("foo", TRUE, KAB, FALSE, <<>>),
      Field("foo", TRUE, KAB, TRUE, <<"8", ",", "9">>),
      Field("foo", TRUE, KAB, TRUE, <<"7">>) }

\* field.Name of the i-th field: F1, F2, ...
FieldName(i) == <<"F", ToString(i)>>

\* What the caller passes as c: its kind, what a pointer points to, and the
\* fields when that is a struct.
PtrToStruct(fields) == [kind |-> "ptr", elem |-> "struct", name |-> "myConfig", fields |-> fields]

StructTypes == UNION { [1..n -> FieldDecls] : n \in 1..MaxFields }

Targets ==
    { PtrToStruct(fs) : fs \in StructTypes }
      \cup { [kind |-> "string", elem |-> "", name |-> "", fields |-> <<>>],
             [kind |-> "ptr", elem |-> "slice", name |-> "", fields |-> <<>>],
             [kind |-> "struct", elem |-> "", name |-> "myConfig",
              fields |-> <<Field("int", TRUE, KA, FALSE, <<>>)>>] }

\* The source mappings handed to LoadFromMap.
Mappings ==
    UNION { [K -> {<<"7">>, <<"x">>}] : K \in {{}, {KA}, {KB}} }
      \cup { [k \in {KA, KB} |-> IF k = KA THEN <<"x">> ELSE <<"7">>] }

\* Contents of the caller's record before the first call: a fresh record, or
\* one in which the caller has set the fields it keeps for itself (those
\* without an env tag).
Fresh(c) == [i \in 1..Len(c.fields) |-> Zero(c.fields[i].type)]
Filled(c) ==
    [i \in 1..Len(c.fields) |->
        IF c.fields[i].hasEnv THEN Zero(c.fields[i].type)
        ELSE Value(c.fields[i].type, 1, <<"p">>)]

(***************************************************************************)
(* LoadFromMap                                                             *)
(***************************************************************************)
MissingMsg(envKey, c, i) ==
    [NoMsg EXCEPT !.kind = "noValue", !.key = envKey, !.strct = c.name,
                  !.field = FieldName(i)]

\* The lookup with its ok result ignored: every field counts as tagged.
HasTagIgnoresOk(field) == TRUE

\* field.Tag.Lookup(cfgTag): whether the field carries the env tag.
HasTag(field) == field.hasEnv

\* ResolveKey taking the first default whatever the key's position.
ResolveKeyFirstDefault(vals, envKeys, defaultOK, envDefaults, j) ==
    [stringVal |-> IF envKeys[j] \in DOMAIN vals THEN vals[envKeys[j]]
                   ELSE IF defaultOK THEN envDefaults[1] ELSE <<>>,
     missing |-> envKeys[j] \notin DOMAIN vals /\ ~defaultOK]

\* ResolveKey going by the string found and not by the lookup's ok result:
\* a key mapped to the empty string counts as absent.
ResolveKeyEmptyIsAbsent(vals, envKeys, defaultOK, envDefaults, j) ==
    LET found == envKeys[j] \in DOMAIN vals /\ vals[envKeys[j]] # <<>>
    IN  [stringVal |-> IF found THEN vals[envKeys[j]]
                       ELSE IF defaultOK THEN envDefaults[j] ELSE <<>>,
         missing |-> ~found /\ ~defaultOK]

\* One turn of the loop over envKeys: the string taken for key j, and
\* whether the key is absent from vals with no default to fall back on.
ResolveKey(vals, envKeys, defaultOK, envDefaults, j) ==
    [stringVal |-> IF envKeys[j] \in DOMAIN vals THEN vals[envKeys[j]]
                   ELSE IF defaultOK THEN envDefaults[j] ELSE <<>>,
     missing |-> envKeys[j] \notin DOMAIN vals /\ ~defaultOK]

\* The loop over envKeys leaving at the first absent key without default
\* (a break after shouldParse = false): later absent keys go unreported.
RECURSIVE ResolveKeysStopsAtFirstMissing(_, _, _, _, _, _, _, _)
ResolveKeysStopsAtFirstMissing(vals, envKeys, defaultOK, envDefaults, c, i, j, acc) ==
    IF j > Len(envKeys) \/ ~acc.shouldParse THEN acc
    ELSE LET k == ResolveKey(vals, envKeys, defaultOK, envDefaults, j)
         IN  ResolveKeysStopsAtFirstMissing(vals, envKeys, defaultOK, envDefaults, c, i, j + 1,
                 [stringVals |-> Append(acc.stringVals, k.stringVal),
                  errs |-> IF k.missing
                           THEN Append(acc.errs, MissingMsg(envKeys[j], c, i))
                           ELSE acc.errs,
                  shouldParse |-> acc.shouldParse /\ ~k.missing])

\* The loop over envKeys putting each string in front of those collected
\* so far: the parser gets its arguments in the reverse of the tag's order.
RECURSIVE ResolveKeysReversed(_, _, _, _, _, _, _, _)
ResolveKeysReversed(vals, envKeys, defaultOK, envDefaults, c, i, j, acc) ==
    IF j > Len(envKeys) THEN acc
    ELSE LET k == ResolveKey(vals, envKeys, defaultOK, envDefaults, j)
         IN  ResolveKeysReversed(vals, envKeys, defaultOK, envDefaults, c, i, j + 1,
                 [stringVals |-> <<k.stringVal>> \o acc.stringVals,
                  errs |-> IF k.missing
                           THEN Append(acc.errs, MissingMsg(envKeys[j], c, i))
                           ELSE acc.errs,
                  shouldParse |-> acc.shouldParse /\ ~k.missing])

\* The loop over envKeys from key j on: the strings collected, the errors
\* appended and the shouldParse flag.
RECURSIVE ResolveKeys(_, _, _, _, _, _, _, _)
ResolveKeys(vals, envKeys, defaultOK, envDefaults, c, i, j, acc) ==
    IF j > Len(envKeys) THEN acc
    ELSE LET k == ResolveKey(vals, envKeys, defaultOK, envDefaults, j)
         IN  ResolveKeys(vals, envKeys, defaultOK, envDefaults, c, i, j + 1,
                 [stringVals |-> Append(acc.stringVals, k.stringVal),
                  errs |-> IF k.missing
                           THEN Append(acc.errs, MissingMsg(envKeys[j], c, i))
                           ELSE acc.errs,
                  shouldParse |-> acc.shouldParse /\ ~k.missing])

\* parser.numArgs != len(envKeys), tested only for keys fewer than numArgs.
ArityMismatchTooFewOnly(p, envKeys) == p.numArgs > Len(envKeys)

\* parser.numArgs != len(envKeys)
ArityMismatch(p, envKeys) == p.numArgs # Len(envKeys)

\* Populate going on to the next field after a parser error or panic
\* without appending anything to errs.
PopulateSwallowsParserError(ps, vals, c, i, st) ==
    LET field == c.fields[i]
        p == ps[field.type]
        defaultOK == field.hasDefault
        r == ResolveKeys(vals, Split(field.env), defaultOK,
                 IF defaultOK THEN Split(field.default) ELSE <<>>, c, i, 1,
                 [stringVals |-> <<>>, errs |-> st.errs, shouldParse |-> TRUE])
        res == wrapped(p.f, r.stringVals)
        called == [st EXCEPT !.calls = Append(st.calls,
                      [field |-> i, fn |-> p.f, args |-> r.stringVals])]
    IN  IF ~r.shouldParse THEN [st EXCEPT !.errs = r.errs]
        ELSE IF res.panics THEN [called EXCEPT !.panicked = TRUE, !.stop = TRUE]
        ELSE IF ~res.ok THEN called
        ELSE [called EXCEPT !.conf[i] = res.val, !.assigned = Append(st.assigned, i)]

\* Populate with the parser's error assigned to errs in place of being
\* appended to it: the errors recorded before it are gone.
PopulateDropsEarlier(ps, vals, c, i, st) ==
    LET field == c.fields[i]
        p == ps[field.type]
        defaultOK == field.hasDefault
        r == ResolveKeys(vals, Split(field.env), defaultOK,
                 IF defaultOK THEN Split(field.default) ELSE <<>>, c, i, 1,
                 [stringVals |-> <<>>, errs |-> st.errs, shouldParse |-> TRUE])
        res == wrapped(p.f, r.stringVals)
        called == [st EXCEPT !.calls = Append(st.calls,
                      [field |-> i, fn |-> p.f, args |-> r.stringVals])]
    IN  IF ~r.shouldParse THEN [st EXCEPT !.errs = r.errs]
        ELSE IF res.panics THEN [called EXCEPT !.panicked = TRUE, !.stop = TRUE]
        ELSE IF ~res.ok
        THEN [called EXCEPT !.errs =
                 <<[res.err EXCEPT !.kind = "cannotPopulate", !.field = FieldName(i),
                                   !.type = res.err.kind]>>]
        ELSE [called EXCEPT !.conf[i] = res.val, !.assigned = Append(st.assigned, i)]

\* Populate returning the parser's error at once (the call ends at the
\* field, the fields after it are not examined).
PopulateStopsAtParserError(ps, vals, c, i, st) ==
    LET field == c.fields[i]
        p == ps[field.type]
        defaultOK == field.hasDefault
        r == ResolveKeys(vals, Split(field.env), defaultOK,
                 IF defaultOK THEN Split(field.default) ELSE <<>>, c, i, 1,
                 [stringVals |-> <<>>, errs |-> st.errs, shouldParse |-> TRUE])
        res == wrapped(p.f, r.stringVals)
        called == [st EXCEPT !.calls = Append(st.calls,
                      [field |-> i, fn |-> p.f, args |-> r.stringVals])]
    IN  IF ~r.shouldParse THEN [st EXCEPT !.errs = r.errs]
        ELSE IF res.panics THEN [called EXCEPT !.panicked = TRUE, !.stop = TRUE]
        ELSE IF ~res.ok
        THEN [called EXCEPT !.stop = TRUE,
                 !.err = Single([res.err EXCEPT !.kind = "cannotPopulate",
                                     !.field = FieldName(i), !.type = res.err.kind])]
        ELSE [called EXCEPT !.conf[i] = res.val, !.assigned = Append(st.assigned, i)]

\* Populate without the test of shouldParse: the parser is called also
\* when a key did not resolve, with the empty string in its place.
PopulateCallsUnresolved(ps, vals, c, i, st) ==
    LET field == c.fields[i]
        p == ps[field.type]
        defaultOK == field.hasDefault
        r == ResolveKeys(vals, Split(field.env), defaultOK,
                 IF defaultOK THEN Split(field.default) ELSE <<>>, c, i, 1,
                 [stringVals |-> <<>>, errs |-> st.errs, shouldParse |-> TRUE])
        res == wrapped(p.f, r.stringVals)
        called == [st EXCEPT !.errs = r.errs,
                             !.calls = Append(st.calls,
                                 [field |-> i, fn |-> p.f, args |-> r.stringVals])]
    IN  IF res.panics THEN [called EXCEPT !.panicked = TRUE, !.stop = TRUE]
        ELSE IF ~res.ok
        THEN [called EXCEPT !.errs = Append(r.errs,
                 [res.err EXCEPT !.kind = "cannotPopulate", !.field = FieldName(i),
                                 !.type = res.err.kind])]
        ELSE [called EXCEPT !.conf[i] = res.val, !.assigned = Append(st.assigned, i)]

\* The part of the loop body after the arity check: resolve the keys, call
\* the parser, set the field.
Populate(ps, vals, c, i, st) ==
    LET field == c.fields[i]
        p == ps[field.type]
        defaultOK == field.hasDefault
        r == ResolveKeys(vals, Split(field.env), defaultOK,
                 IF defaultOK THEN Split(field.default) ELSE <<>>, c, i, 1,
                 [stringVals |-> <<>>, errs |-> st.errs, shouldParse |-> TRUE])
        res == wrapped(p.f, r.stringVals)
        called == [st EXCEPT !.calls = Append(st.calls,
                      [field |-> i, fn |-> p.f, args |-> r.stringVals])]
    IN  IF ~r.shouldParse THEN [st EXCEPT !.errs = r.errs]
        ELSE IF res.panics THEN [called EXCEPT !.panicked = TRUE, !.stop = TRUE]
        ELSE IF ~res.ok
        THEN [called EXCEPT !.errs = Append(st.errs,
                 [res.err EXCEPT !.kind = "cannotPopulate", !.field = FieldName(i),
                                 !.type = res.err.kind])]
        ELSE [called EXCEPT !.conf[i] = res.val, !.assigned = Append(st.assigned, i)]

\* OneField appending the default-count or arity error to errs and
\* returning the aggregate, the errors recorded before it included.
OneFieldAppendsShapeError(ps, vals, c, i, st) ==
    LET field == c.fields[i]
        seen == [st EXCEPT !.visited = Append(st.visited, i)]
        envKeys == Split(field.env)
        defaultOK == field.hasDefault
        envDefaults == IF defaultOK THEN Split(field.default) ELSE <<>>
    IN  IF ~HasTag(field) THEN seen
        ELSE IF defaultOK /\ Len(envKeys) # Len(envDefaults)
        THEN [seen EXCEPT !.stop = TRUE,
                          !.err = ErrorOrNil(Append(st.errs,
                              [NoMsg EXCEPT !.kind = "defaultCount",
                              !.tag = field.env, !.n = Len(envKeys),
                              !.dtag = field.default, !.m = Len(envDefaults)]))]
        ELSE IF field.type \notin DOMAIN ps
        THEN [seen EXCEPT !.errs = Append(st.errs,
                 [NoMsg EXCEPT !.kind = "noParser", !.type = field.type])]
        ELSE IF ArityMismatch(ps[field.type], envKeys)
        THEN [seen EXCEPT !.stop = TRUE,
                          !.err = ErrorOrNil(Append(st.errs,
                              [NoMsg EXCEPT !.kind = "arity",
                              !.type = field.type, !.n = ps[field.type].numArgs,
                              !.tag = field.env, !.m = Len(envKeys)]))]
        ELSE Populate(ps, vals, c, i, seen)

\* OneField looking the parser up before it compares the default count
\* with the key count.
OneFieldLookupFirst(ps, vals, c, i, st) ==
    LET field == c.fields[i]
        seen == [st EXCEPT !.visited = Append(st.visited, i)]
        envKeys == Split(field.env)
        defaultOK == field.hasDefault
        envDefaults == IF defaultOK THEN Split(field.default) ELSE <<>>
    IN  IF ~HasTag(field) THEN seen
        ELSE IF field.type \notin DOMAIN ps
        THEN [seen EXCEPT !.errs = Append(st.errs,
                 [NoMsg EXCEPT !.kind = "noParser", !.type = field.type])]
        ELSE IF defaultOK /\ Len(envKeys) # Len(envDefaults)
        THEN [seen EXCEPT !.stop = TRUE,
                          !.err = Single([NoMsg EXCEPT !.kind = "defaultCount",
                              !.tag = field.env, !.n = Len(envKeys),
                              !.dtag = field.default, !.m = Len(envDefaults)])]
        ELSE IF ArityMismatch(ps[field.type], envKeys)
        THEN [seen EXCEPT !.stop = TRUE,
                          !.err = Single([NoMsg EXCEPT !.kind = "arity",
                              !.type = field.type, !.n = ps[field.type].numArgs,
                              !.tag = field.env, !.m = Len(envKeys)])]
        ELSE Populate(ps, vals, c, i, seen)

\* One turn of the loop over the struct's fields, on field i.  st carries
\* errs (the multierror built so far), the record, and what the call did:
\* the fields it examined, the parser calls it made, the fields it set,
\* whether it returned (stop, with err) and whether a panic of a callee
\* unwound it (LoadFromMap itself recovers nothing).
OneField(ps, vals, c, i, st) ==
    LET field == c.fields[i]
        seen == [st EXCEPT !.visited = Append(st.visited, i)]
        envKeys == Split(field.env)
        defaultOK == field.hasDefault
        envDefaults == IF defaultOK THEN Split(field.default) ELSE <<>>
    IN  IF ~HasTag(field) THEN seen
        ELSE IF defaultOK /\ Len(envKeys) # Len(envDefaults)
        THEN [seen EXCEPT !.stop = TRUE,
                          !.err = Single([NoMsg EXCEPT !.kind = "defaultCount",
                              !.tag = field.env, !.n = Len(envKeys),
                              !.dtag = field.default, !.m = Len(envDefaults)])]
        ELSE IF field.type \notin DOMAIN ps
        THEN [seen EXCEPT !.errs = Append(st.errs,
                 [NoMsg EXCEPT !.kind = "noParser", !.type = field.type])]
        ELSE IF ArityMismatch(ps[field.type], envKeys)
        THEN [seen EXCEPT !.stop = TRUE,
                          !.err = Single([NoMsg EXCEPT !.kind = "arity",
                              !.type = field.type, !.n = ps[field.type].numArgs,
                              !.tag = field.env, !.m = Len(envKeys)])]
        ELSE Populate(ps, vals, c, i, seen)

\* The loop, giving up at the first field that recorded an error.
RECURSIVE LoadFieldsStopsAtFirstError(_, _, _, _, _)
LoadFieldsStopsAtFirstError(ps, vals, c, i, st) ==
    IF i > Len(c.fields) \/ st.errs # <<>> THEN [st EXCEPT !.err = ErrorOrNil(st.errs)]
    ELSE IF OneField(ps, vals, c, i, st).stop THEN OneField(ps, vals, c, i, st)
    ELSE LoadFieldsStopsAtFirstError(ps, vals, c, i + 1, OneField(ps, vals, c, i, st))

\* The loop, going on to the next fields after a turn returned an error and
\* returning that error at the end.
RECURSIVE LoadFieldsKeepsGoing(_, _, _, _, _)
LoadFieldsKeepsGoing(ps, vals, c, i, st) ==
    IF i > Len(c.fields)
    THEN IF st.stop THEN st ELSE [st EXCEPT !.err = ErrorOrNil(st.errs)]
    ELSE LoadFieldsKeepsGoing(ps, vals, c, i + 1,
             [OneField(ps, vals, c, i, st) EXCEPT !.stop = @ \/ st.stop,
                  !.err = IF st.stop THEN st.err ELSE @])

\* The loop, with the record put back to zero values when the call is about
\* to return an aggregate.
RECURSIVE LoadFieldsZeroesOnError(_, _, _, _, _)
LoadFieldsZeroesOnError(ps, vals, c, i, st) ==
    IF i > Len(c.fields)
    THEN [st EXCEPT !.err = ErrorOrNil(st.errs),
                    !.conf = IF st.errs = <<>> THEN st.conf ELSE Fresh(c)]
    ELSE LET turn == OneField(ps, vals, c, i, st)
         IN  IF turn.stop THEN turn ELSE LoadFieldsZeroesOnError(ps, vals, c, i + 1, turn)

\* The loop over the struct's fields from field i on, and the return after
\* it: a turn that returned ends the call, otherwise the next field is taken.
RECURSIVE LoadFields(_, _, _, _, _)
LoadFields(ps, vals, c, i, st) ==
    IF i > Len(c.fields) THEN [st EXCEPT !.err = ErrorOrNil(st.errs)]
    ELSE LET turn == OneField(ps, vals, c, i, st)
         IN  IF turn.stop THEN turn ELSE LoadFields(ps, vals, c, i + 1, turn)

\* What a call has done before its first field.
Start(cf) ==
    [err |-> Nil, errs |-> <<>>, conf |-> cf, visited |-> <<>>, calls |-> <<>>,
     assigned |-> <<>>, panicked |-> FALSE, stop |-> FALSE]

\* LoadFromMap without the two checks of c's kind.
LoadFromMapAnyTarget(ps, vals, c, cf) == LoadFields(ps, vals, c, 1, Start(cf))

\* (*Loader).LoadFromMap on parsers ps, mapping vals, target c holding cf.
LoadFromMap(ps, vals, c, cf) ==
    IF c.kind # "ptr"
    THEN [Start(cf) EXCEPT !.err = Single([NoMsg EXCEPT !.kind = "notPointer"])]
    ELSE IF c.elem # "struct"
    THEN [Start(cf) EXCEPT !.err = Single([NoMsg EXCEPT !.kind = "notStructPointer"])]
    ELSE LoadFields(ps, vals, c, 1, Start(cf))

(***************************************************************************)
(* The state machine                                                       *)
(***************************************************************************)
NoVals == [k \in {} |-> <<>>]

\* last before any call.
NoCall ==
    [op |-> "none", f |-> "", vals |-> NoVals, err |-> Nil,
     visited |-> <<>>, calls |-> <<>>, assigned |-> <<>>, panicked |-> FALSE]

Init ==
    /\ pkg = Initialised
    /\ parsers = Empty
    /\ target \in Targets
    /\ conf \in {Fresh(target), Filled(target)}
    /\ last = NoCall
    /\ environ = <<>>
    /\ loaders = <<>>
    /\ heap = <<>>
    /\ recv = 0
    /\ goroutines = <<>>
    /\ tmpl = <<>>

\* e.RegisterParser(f)
Register(f) ==
    \E r \in {RegisterParser(parsers, f)} :
        /\ parsers' = r.parsers
        /\ last' = [op |-> "RegisterParser", f |-> f.name, vals |-> NoVals,
                    err |-> r.err, visited |-> <<>>, calls |-> <<>>,
                    assigned |-> <<>>, panicked |-> FALSE]
        /\ recv' = 0
        /\ UNCHANGED <<target, conf, environ, loaders, heap, goroutines, tmpl, pkg>>

\* e.LoadFromMap(vals, c)
Load(vals) ==
    \E r \in {LoadFromMap(parsers, vals, target, conf)} :
        /\ conf' = r.conf
        /\ last' = [op |-> "LoadFromMap", f |-> "", vals |-> vals, err |-> r.err,
                    visited |-> r.visited, calls |-> r.calls,
                    assigned |-> r.assigned, panicked |-> r.panicked]
        /\ recv' = 0
        /\ tmpl' = TemplateAfter(tmpl, r.calls)
        /\ UNCHANGED <<parsers, target, environ, loaders, heap, goroutines, pkg>>

Next ==
    \/ \E f \in Funcs : Register(f)
    \/ \E vals \in Mappings : Load(vals)

Spec == Init /\ [][Next]_vars

(***************************************************************************)
(* Named types: records whose tagged fields are of two distinct types with *)
(* the same underlying type, loaded while parsers for them are registered. *)
(***************************************************************************)
TypeFuncs == {f \in Funcs : f.name \in {"ParseInt", "fooOK", "barOK"}}

TypeFieldDecls ==
    { Field("foo", TRUE, KA, FALSE, <<>>),
      Field("bar", TRUE, KA, FALSE, <<>>),
      Field("bar", TRUE, KB, TRUE, <<"7">>),
      Field("int", TRUE, KA, FALSE, <<>>) }

TypeTargets ==
    { PtrToStruct(fs) : fs \in UNION { [1..n -> TypeFieldDecls] : n \in 1..MaxFields } }

InitTypes ==
    /\ pkg = Initialised
    /\ parsers = Empty
    /\ target \in TypeTargets
    /\ conf = Fresh(target)
    /\ last = NoCall
    /\ environ = <<>>
    /\ loaders = <<>>
    /\ heap = <<>>
    /\ recv = 0
    /\ goroutines = <<>>
    /\ tmpl = <<>>

NextTypes ==
    \/ \E f \in TypeFuncs : Register(f)
    \/ \E vals \in Mappings : Load(vals)

SpecTypes == InitTypes /\ [][NextTypes]_vars

(***************************************************************************)
(* Load: the mapping is made from the process environment.                 *)
(***************************************************************************)
\* Longest environment list the model loads from.
MaxEnv == 2

\* The pieces of s between "=" signs, every "=" a separator.
RECURSIVE SplitEveryEq(_, _)
SplitEveryEq(s, cur) ==
    IF s = <<>> THEN <<cur>>
    ELSE IF Head(s) = "=" THEN <<cur>> \o SplitEveryEq(Tail(s), <<>>)
    ELSE SplitEveryEq(Tail(s), Append(cur, Head(s)))

\* strings.SplitN(s, "=", 2) with cur the text read so far: s whole when
\* it has no "=", else the text before the first "=" and the rest.
RECURSIVE SplitN2(_, _)
SplitN2(s, cur) ==
    IF s = <<>> THEN <<cur>>
    ELSE IF Head(s) = "=" THEN <<cur, Tail(s)>>
    ELSE SplitN2(Tail(s), Append(cur, Head(s)))

\* The loop of envListToMap from entry n on, out being the map so far.
RECURSIVE envListToMapFrom(_, _, _)
envListToMapFrom(ss, n, out) ==
    IF n > Len(ss) THEN out
    ELSE LET parsed == SplitN2(ss[n], <<>>)
         IN  envListToMapFrom(ss, n + 1,
                 [k \in DOMAIN out \cup {parsed[1]} |->
                     IF k = parsed[1]
                     THEN IF Len(parsed) = 1 THEN <<>> ELSE parsed[2]
                     ELSE out[k]])

envListToMap(ss) == envListToMapFrom(ss, 1, NoVals)

\* Entries of the environment: KEY=VALUE, a value holding "=", no "=", an
\* empty value, an empty key.
EnvEntries ==
    { <<"A", "=", "7">>, <<"B", "=", "x">>, <<"A", "=", "7", "=", "x">>,
      <<"B">>, <<"A", "=">>, <<"=", "A">> }

Environs == UNION { [1..n -> EnvEntries] : n \in 0..MaxEnv }

EnvTargets ==
    { PtrToStruct(<<Field("foo", TRUE, KA, FALSE, <<>>),
                    Field("foo", TRUE, KB, TRUE, <<"7">>)>>) }

InitEnv ==
    /\ pkg = Initialised
    /\ parsers = Empty
    /\ target \in EnvTargets
    /\ conf = Fresh(target)
    /\ last = NoCall
    /\ environ \in Environs
    /\ loaders = <<>>
    /\ heap = <<>>
    /\ recv = 0
    /\ goroutines = <<>>
    /\ tmpl = <<>>

\* e.Load(c)
LoadEnv == Load(envListToMap(environ))

NextEnv ==
    \/ \E f \in {g \in Funcs : g.name \in {"fooOK", "fooPanic"}} : Register(f)
    \/ LoadEnv

SpecEnv == InitEnv /\ [][NextEnv]_vars

(***************************************************************************)
(* Several Loaders: New() and Empty() make Loaders, each with a parsers    *)
(* map of its own on the heap; calls name the Loader they are made on.     *)
(***************************************************************************)
\* Most Loaders made with New() and Empty().
MaxLoaders == 2

\* The loop of New ignoring the error of a registration: the built-ins
\* after a refused one are still registered and the Loader is returned.
RECURSIVE NewFromIgnoresErr(_, _, _)
NewFromIgnoresErr(list, n, ps) ==
    IF n > Len(list) THEN [err |-> Nil, parsers |-> ps]
    ELSE NewFromIgnoresErr(list, n + 1, RegisterParser(ps, list[n]).parsers)

\* The loop of New over list from its n-th function on, ps being the map
\* so far: the first registration error ends it, and no Loader is returned.
RECURSIVE NewFrom(_, _, _)
NewFrom(list, n, ps) ==
    IF n > Len(list) THEN [err |-> Nil, parsers |-> ps]
    ELSE LET r == RegisterParser(ps, list[n])
         IN  IF r.err # Nil THEN [err |-> r.err, parsers |-> Empty]
             ELSE NewFrom(list, n + 1, r.parsers)

\* New(): the error returned and the parsers map of the Loader returned.
New == NewFrom(pkg.DefaultParsers, 1, Empty)

\* Every map literal evaluating to one and the same map.
AllocShared(h) == 1

\* map[reflect.Type]parser{}: the reference to a map allocated anew.
Alloc(h) == Len(h) + 1

\* The heap with map m at reference ref.
Put(h, ref, m) ==
    [x \in 1..(IF ref > Len(h) THEN ref ELSE Len(h)) |-> IF x = ref THEN m ELSE h[x]]

\* The parsers map of Loader l.
Map(l) == heap[loaders[l].parsers]

LoaderFuncs == {f \in Funcs : f.name \in {"ParseInt", "fooOK", "foo2"}}

LoaderTargets ==
    { PtrToStruct(<<Field("foo", TRUE, KA, FALSE, <<>>),
                    Field("int", TRUE, KB, TRUE, <<"7">>)>>) }

LoaderMappings == {vals \in Mappings : DOMAIN vals \subseteq {KA}}

\* The package's default loader is made by New() when the package
\* initialises; no other Loader exists yet.
InitLoaders ==
    /\ pkg = Initialised
    /\ parsers = New.parsers
    /\ target \in LoaderTargets
    /\ conf = Fresh(target)
    /\ last = NoCall
    /\ environ = <<>>
    /\ loaders = <<>>
    /\ heap = <<>>
    /\ recv = 0
    /\ goroutines = <<>>
    /\ tmpl = <<>>

\* ec := Empty()
MakeEmpty ==
    /\ Len(loaders) < MaxLoaders
    /\ \E ref \in {Alloc(heap)} :
          /\ heap' = Put(heap, ref, Empty)
          /\ loaders' = Append(loaders, [parsers |-> ref])
    /\ last' = [NoCall EXCEPT !.op = "Empty"]
    /\ recv' = Len(loaders) + 1
    /\ UNCHANGED <<parsers, target, conf, environ, goroutines, tmpl, pkg>>

\* ec, err := New()
MakeNew ==
    /\ Len(loaders) < MaxLoaders
    /\ \E ref \in {Alloc(heap)} :
          /\ heap' = IF New.err = Nil THEN Put(heap, ref, New.parsers) ELSE heap
          /\ loaders' = IF New.err = Nil THEN Append(loaders, [parsers |-> ref])
                        ELSE loaders
    /\ last' = [NoCall EXCEPT !.op = "New", !.err = New.err]
    /\ recv' = Len(loaders) + 1
    /\ UNCHANGED <<parsers, target, conf, environ, goroutines, tmpl, pkg>>

\* loaders[l].RegisterParser(f)
RegisterOn(l, f) ==
    \E r \in {RegisterParser(Map(l), f)} :
        /\ heap' = [heap EXCEPT ![loaders[l].parsers] = r.parsers]
        /\ last' = [NoCall EXCEPT !.op = "RegisterParser", !.f = f.name, !.err = r.err]
        /\ recv' = l
        /\ UNCHANGED <<parsers, target, conf, environ, loaders, goroutines, tmpl, pkg>>

\* loaders[l].LoadFromMap(vals, c)
LoadOn(l, vals) ==
    \E r \in {LoadFromMap(Map(l), vals, target, conf)} :
        /\ conf' = r.conf
        /\ last' = [op |-> "LoadFromMap", f |-> "", vals |-> vals, err |-> r.err,
                    visited |-> r.visited, calls |-> r.calls,
                    assigned |-> r.assigned, panicked |-> r.panicked]
        /\ recv' = l
        /\ tmpl' = TemplateAfter(tmpl, r.calls)
        /\ UNCHANGED <<parsers, target, environ, loaders, heap, goroutines, pkg>>

NextLoaders ==
    \/ MakeEmpty
    \/ MakeNew
    \/ \E l \in 1..Len(loaders) : \E f \in LoaderFuncs : RegisterOn(l, f)
    \/ \E l \in 1..Len(loaders) : \E vals \in LoaderMappings : LoadOn(l, vals)

SpecLoaders == InitLoaders /\ [][NextLoaders]_vars

(***************************************************************************)
(* Parsers that return an error: records loaded again and again while      *)
(* parsers that fail on some or all strings are registered.                *)
(***************************************************************************)
\* fooOops returns what it made of its argument together with the error
\* "oops"; ParseInt returns an error for a string that is not a number.
ErrFuncs ==
    { Fn("ParseInt", "func", <<"string">>, <<"int", "error">>),
      Fn("fooOK", "func", <<"string">>, <<"foo", "error">>),
      Fn("fooOops", "func", <<"string">>, <<"foo", "error">>) }

ErrFieldDecls ==
    { Field("foo", TRUE, KA, FALSE, <<>>),
      Field("int", TRUE, KA, FALSE, <<>>),
      Field("int", TRUE, KB, TRUE, <<"7">>),
      Field("foo", TRUE, KAB, FALSE, <<>>) }

ErrTargets ==
    { PtrToStruct(fs) : fs \in UNION { [1..n -> ErrFieldDecls] : n \in 1..MaxFields } }

InitErr ==
    /\ pkg = Initialised
    /\ parsers = Empty
    /\ target \in ErrTargets
    /\ conf = Fresh(target)
    /\ last = NoCall
    /\ environ = <<>>
    /\ loaders = <<>>
    /\ heap = <<>>
    /\ recv = 0
    /\ goroutines = <<>>
    /\ tmpl = <<>>

NextErr ==
    \/ \E f \in ErrFuncs : Register(f)
    \/ \E vals \in Mappings : Load(vals)

SpecErr == InitErr /\ [][NextErr]_vars

(***************************************************************************)
(* Registration of functions that break several of RegisterParser's rules  *)
(* at once, on a Loader that may hold an entry for the type they produce.  *)
(***************************************************************************)
ShapeFuncs ==
    Funcs \cup
    { Fn("noArgsOneOut", "func", <<>>, <<"foo">>),
      Fn("intArgThreeOut", "func", <<"int">>, <<"foo", "string", "error">>),
      Fn("intArgNotError", "func", <<"int">>, <<"foo", "string">>),
      Fn("oneOut", "func", <<"string">>, <<"foo">>),
      Fn("twoStringsNotError", "func", <<"string", "string">>, <<"foo", "string">>) }

InitShapes ==
    /\ pkg = Initialised
    /\ parsers = Empty
    /\ target \in {PtrToStruct(<<>>)}
    /\ conf = Fresh(target)
    /\ last = NoCall
    /\ environ = <<>>
    /\ loaders = <<>>
    /\ heap = <<>>
    /\ recv = 0
    /\ goroutines = <<>>
    /\ tmpl = <<>>

NextShapes == \E f \in ShapeFuncs : Register(f)

SpecShapes == InitShapes /\ [][NextShapes]_vars

(***************************************************************************)
(* The package: init() makes the default loader with New(); New() reads    *)
(* the exported variable DefaultParsers, which the importing program may   *)
(* assign.                                                                 *)
(***************************************************************************)
\* Lists DefaultParsers holds: the one the package declares, and lists put
\* in its place - two functions of valid shape for two types (one of two
\* parameters), a list whose second function has a non-string parameter
\* and whose third produces the type of the first, a list whose third
\* function produces the type of the second and whose fourth has no
\* parameter.
BuiltinLists ==
    { DefaultParsers,
      << BuiltIn("ParseInt", "int"),
         Fn("foo2", "func", <<"string", "string">>, <<"foo", "error">>) >>,
      << BuiltIn("ParseString", "string"),
         Fn("intArg", "func", <<"int">>, <<"foo", "error">>),
         BuiltIn("ParseString", "string") >>,
      << BuiltIn("ParseInt", "int"), BuiltIn("fooOK", "foo"),
         Fn("foo2", "func", <<"string", "string">>, <<"foo", "error">>),
         Fn("noArgs", "func", <<>>, <<"foo", "error">>) >> }

PkgFuncs == {f \in Funcs : f.name \in {"fooOK", "barOK", "threeOut"}}

\* The package before init() runs: its variables hold what their
\* declarations give them, defaultLoader is nil.
InitPkg ==
    /\ pkg \in [DefaultParsers : BuiltinLists, init : {"pending"}, defaultLoader : {"nil"}]
    /\ parsers = Empty
    /\ target \in {PtrToStruct(<<>>)}
    /\ conf = Fresh(target)
    /\ last = NoCall
    /\ environ = <<>>
    /\ loaders = <<>>
    /\ heap = <<>>
    /\ recv = 0
    /\ goroutines = <<>>
    /\ tmpl = <<>>

\* func init(): defaultLoader, err = New(); a non-nil err panics, which
\* ends the program before main starts.
PackageInit ==
    /\ pkg.init = "pending"
    /\ \E r \in {New} :
          /\ pkg' = [pkg EXCEPT !.init = IF r.err = Nil THEN "done" ELSE "panicked",
                                !.defaultLoader = IF r.err = Nil THEN "set" ELSE "nil"]
          /\ parsers' = r.parsers
          /\ last' = [NoCall EXCEPT !.op = "init", !.err = r.err, !.panicked = r.err # Nil]
    /\ recv' = 0
    /\ UNCHANGED <<target, conf, environ, loaders, heap, goroutines, tmpl>>

\* envcfg.DefaultParsers = list, in the importing program.
SetDefaultParsers(list) ==
    /\ pkg' = [pkg EXCEPT !.DefaultParsers = list]
    /\ last' = [NoCall EXCEPT !.op = "assign"]
    /\ recv' = 0
    /\ UNCHANGED <<parsers, target, conf, environ, loaders, heap, goroutines, tmpl>>

\* The importing program runs once init() has returned.
NextPkg ==
    \/ PackageInit
    \/ pkg.init = "done" /\ \E list \in BuiltinLists : SetDefaultParsers(list)
    \/ pkg.init = "done" /\ MakeEmpty
    \/ pkg.init = "done" /\ MakeNew
    \/ pkg.init = "done" /\ \E l \in 1..Len(loaders) : \E f \in PkgFuncs : RegisterOn(l, f)

SpecPkg == InitPkg /\ [][NextPkg]_vars

(***************************************************************************)
(* Concurrent LoadFromMap calls on one Loader, each on a goroutine of its  *)
(* own with its own record.  A call takes a step per loop turn: a turn     *)
(* reads the shared parsers map once (e.parsers[field.Type]); everything   *)
(* else it touches is local to the call.                                   *)
(***************************************************************************)
\* Most goroutines calling LoadFromMap at the same time.
MaxGoroutines == 2

\* Loaders seeded before the calls start: New() and one parser for foo.
SeededParsers ==
    { RegisterParser(New.parsers, f).parsers :
        f \in {g \in Funcs : g.name \in {"fooOK", "foo2"}} }

ConcTargets ==
    { PtrToStruct(<<Field("foo", TRUE, KA, FALSE, <<>>),
                    Field("int", TRUE, KB, TRUE, <<"7">>)>>),
      PtrToStruct(<<Field("*Template", TRUE, KA, FALSE, <<>>)>>),
      [kind |-> "string", elem |-> "", name |-> "", fields |-> <<>>] }

ConcMappings == {vals \in Mappings : DOMAIN vals \subseteq {KA}}

\* A call about to be made on a goroutine: its arguments, its locals (st,
\* the contents of its record among them), the loop index i (0 before the
\* checks of c's kind) and whether it has returned.
Go(c, vals) ==
    [c |-> c, vals |-> vals, st |-> Start(Fresh(c)), i |-> 0, done |-> FALSE]

InitConc ==
    /\ pkg = Initialised
    /\ parsers \in SeededParsers
    /\ target \in {PtrToStruct(<<>>)}
    /\ conf = Fresh(target)
    /\ last = NoCall
    /\ environ = <<>>
    /\ loaders = <<>>
    /\ heap = <<>>
    /\ recv = 0
    /\ goroutines \in [1..MaxGoroutines -> {Go(c, vals) : c \in ConcTargets, vals \in ConcMappings}]
    /\ tmpl = <<>>

\* The goroutines after a step of call g: only g's own locals, record and
\* position change (errs, structVal and the loop variables are locals of
\* the call).
Commit(gs, g, st, i, done) ==
    [gs EXCEPT ![g] = [@ EXCEPT !.st = st, !.i = i, !.done = done]]

\* The checks of c's kind at the head of LoadFromMap.
Enter(g) ==
    /\ goroutines[g].i = 0
    /\ ~goroutines[g].done
    /\ LET me == goroutines[g]
       IN  goroutines' =
               IF me.c.kind # "ptr" \/ me.c.elem # "struct"
               THEN Commit(goroutines, g,
                        LoadFromMap(parsers, me.vals, me.c, me.st.conf), 0, TRUE)
               ELSE Commit(goroutines, g, me.st, 1, FALSE)
    /\ UNCHANGED <<parsers, target, conf, last, environ, loaders, heap, recv, tmpl, pkg>>

\* One turn of the loop over the fields, on field i; a parser the turn
\* calls has its effect on what it shares with other calls.
FieldTurn(g) ==
    /\ ~goroutines[g].done
    /\ goroutines[g].i \in 1..Len(goroutines[g].c.fields)
    /\ \E turn \in {OneField(parsers, goroutines[g].vals, goroutines[g].c,
                                goroutines[g].i, goroutines[g].st)} :
          /\ goroutines' = Commit(goroutines, g, turn, goroutines[g].i + 1, turn.stop)
          /\ tmpl' = TemplateAfter(tmpl,
                         SubSeq(turn.calls, Len(goroutines[g].st.calls) + 1, Len(turn.calls)))
    /\ UNCHANGED <<parsers, target, conf, last, environ, loaders, heap, recv, pkg>>

\* return errs.ErrorOrNil()
Return(g) ==
    /\ ~goroutines[g].done
    /\ goroutines[g].i > Len(goroutines[g].c.fields)
    /\ goroutines' = Commit(goroutines, g,
                          [goroutines[g].st EXCEPT !.err = ErrorOrNil(goroutines[g].st.errs)],
                          goroutines[g].i, TRUE)
    /\ UNCHANGED <<parsers, target, conf, last, environ, loaders, heap, recv, tmpl, pkg>>

NextConc ==
    \/ \E g \in DOMAIN goroutines : Enter(g)
    \/ \E g \in DOMAIN goroutines : FieldTurn(g)
    \/ \E g \in DOMAIN goroutines : Return(g)

SpecConc == InitConc /\ [][NextConc]_vars

(***************************************************************************)
(* Concurrent RegisterParser calls on one Loader, each on a goroutine of   *)
(* its own, with nothing serialising them.  A call reads the parsers map   *)
(* for its duplicate check and writes it later; the Loader has no lock.    *)
(***************************************************************************)
RegFuncs == {f \in Funcs : f.name \in {"fooOK", "foo2", "barOK", "intArg"}}

\* A call about to be made: its argument, where it is (before the checks,
\* before the assignment, returned), the error it returned, and how many
\* assignments to the map had been made when it read the map (readAt) and
\* when it had made its own (at, 0 when it made none).
RegCall(f) == [f |-> f, pc |-> "check", err |-> Nil, readAt |-> 0, at |-> 0]

\* Assignments made to the map so far.
Inserted(gs) == Cardinality({g \in DOMAIN gs : gs[g].at > 0})

\* The runtime has ended the program (fatal error: concurrent map writes,
\* or concurrent map read and map write).
Crashed == last.op = "fatal"

InitReg ==
    /\ pkg = Initialised
    /\ parsers = Empty
    /\ target \in {PtrToStruct(<<>>)}
    /\ conf = Fresh(target)
    /\ last = NoCall
    /\ environ = <<>>
    /\ loaders = <<>>
    /\ heap = <<>>
    /\ recv = 0
    /\ goroutines \in [1..MaxGoroutines -> {RegCall(f) : f \in RegFuncs}]
    /\ tmpl = <<>>

\* The shape checks and the duplicate check, which reads the map: the call
\* returns the error of the first that fails, else goes on to the
\* assignment.
CheckShape(g) ==
    /\ ~Crashed
    /\ goroutines[g].pc = "check"
    /\ \E r \in {RegisterParser(parsers, goroutines[g].f)} :
          goroutines' = [goroutines EXCEPT ![g] =
              [@ EXCEPT !.pc = IF r.err # Nil THEN "done" ELSE "insert",
                        !.err = r.err,
                        !.readAt = Inserted(goroutines)]]
    /\ UNCHANGED <<parsers, target, conf, last, environ, loaders, heap, recv, tmpl, pkg>>

\* e.parsers[t.Out(0)] = parser{...}; return nil
InsertEntry(g) ==
    /\ ~Crashed
    /\ goroutines[g].pc = "insert"
    /\ parsers' = Store(parsers, goroutines[g].f.out[1],
                        parser(goroutines[g].f.name, Len(goroutines[g].f.in)))
    /\ goroutines' = [goroutines EXCEPT ![g] =
           [@ EXCEPT !.pc = "done", !.at = Inserted(goroutines) + 1]]
    /\ UNCHANGED <<target, conf, last, environ, loaders, heap, recv, tmpl, pkg>>

\* The assignment of call g made while another call is reading or writing
\* the map: the two accesses are a data race, which the runtime may detect
\* and end the program for.
Fatal(g) ==
    /\ ~Crashed
    /\ goroutines[g].pc = "insert"
    /\ \E h \in DOMAIN goroutines : h # g /\ goroutines[h].pc \in {"check", "insert"}
    /\ last' = [NoCall EXCEPT !.op = "fatal", !.panicked = TRUE]
    /\ UNCHANGED <<parsers, target, conf, environ, loaders, heap, recv, goroutines, tmpl, pkg>>

NextReg ==
    \/ \E g \in DOMAIN goroutines : CheckShape(g)
    \/ \E g \in DOMAIN goroutines : InsertEntry(g)
    \/ \E g \in DOMAIN goroutines : Fatal(g)

SpecReg == InitReg /\ [][NextReg]_vars

(***************************************************************************)
(* Properties                                                              *)
(***************************************************************************)
\* The shape RegisterParser asks of a function: a func of one or more
\* string parameters returning (T, error).
ValidShape(f) ==
    /\ f.kind = "func"
    /\ Len(f.in) >= 1
    /\ \A n \in 1..Len(f.in) : f.in[n] = "string"
    /\ Len(f.out) = 2
    /\ f.out[2] = "error"

Registering == last.op = "RegisterParser"
Loaded == last.op = "LoadFromMap"

\* C1: once a parser producing T is registered, every later RegisterParser
\* call with a valid-shape function producing T returns the
\* already-registered error, and the entry stored for T (function and
\* numArgs) never changes, whatever is registered afterwards.
C1_FirstRegistrationWins ==
    [][ /\ \A t \in DOMAIN parsers : t \in DOMAIN parsers' /\ parsers'[t] = parsers[t]
        /\ \A f \in Funcs :
              (Registering' /\ last'.f = f.name /\ ValidShape(f) /\ f.out[1] \in DOMAIN parsers)
              => last'.err = Single([NoMsg EXCEPT !.kind = "alreadyRegistered",
                                                   !.fn = f.name, !.type = f.out[1]]) ]_vars

\* A second, different function for an already registered type has just
\* been rejected and the first one's entry is still the one stored.
C1_Witness ==
    /\ Registering
    /\ last.f = "foo2"
    /\ last.err # Nil
    /\ last.err.msgs[1].kind = "alreadyRegistered"
    /\ "foo" \in DOMAIN parsers
    /\ parsers["foo"] = parser("fooOK", 1)

\* C2: RegisterParser with an argument that breaks a shape rule (not a func,
\* no parameters, a non-string parameter, other than two results, a second
\* result that is not error) returns an error and leaves the parsers map as
\* it was.
C2_BadShapeRejected ==
    [][ \A f \in Funcs :
          (Registering' /\ last'.f = f.name /\ ~ValidShape(f))
          => /\ last'.err # Nil
             /\ ~last'.err.agg
             /\ last'.err.msgs[1].kind \in
                    {"notFunc", "wantArgs", "nonStringArg", "wantTwoReturns", "lastNotError"}
             /\ parsers' = parsers ]_vars

\* A function with a non-string parameter has just been refused on a loader
\* that holds entries, none of them for the type it produces.
C2_Witness ==
    /\ Registering
    /\ last.f = "intArg"
    /\ last.err # Nil
    /\ DOMAIN parsers = {"int", "bar"}

(***************************************************************************)
(* What a LoadFromMap call is expected to do, stated from the target, the  *)
(* parsers and the mapping of the last call.                               *)
(***************************************************************************)
NF == Len(target.fields)
IsStructPtr == target.kind = "ptr" /\ target.elem = "struct"
Fld(i) == target.fields[i]
Tagged(i) == Fld(i).hasEnv
KeysOf(i) == Split(Fld(i).env)
DefaultsOf(i) == Split(Fld(i).default)
Registered(i) == Fld(i).type \in DOMAIN parsers
DefaultCountBad(i) ==
    Tagged(i) /\ Fld(i).hasDefault /\ Len(KeysOf(i)) # Len(DefaultsOf(i))
ArityBad(i) ==
    Tagged(i) /\ Registered(i) /\ parsers[Fld(i).type].numArgs # Len(KeysOf(i))
FailsFast(i) == DefaultCountBad(i) \/ ArityBad(i)
\* No field declared before i ends the call.
Reached(i) == \A j \in 1..(i - 1) : ~FailsFast(j)
RunsToEnd == \A i \in 1..NF : ~FailsFast(i)

Range(seq) == {seq[k] : k \in 1..Len(seq)}
Absent(i) == {j \in 1..Len(KeysOf(i)) : KeysOf(i)[j] \notin DOMAIN last.vals}
AllResolved(i) == Fld(i).hasDefault \/ Absent(i) = {}
\* Key by key: the mapped string when the key is present, else the default
\* at the same position.
ArgsOf(i) ==
    [j \in 1..Len(KeysOf(i)) |->
        IF KeysOf(i)[j] \in DOMAIN last.vals THEN last.vals[KeysOf(i)[j]]
        ELSE IF Fld(i).hasDefault THEN DefaultsOf(i)[j] ELSE <<>>]
Result(i) == Call(parsers[Fld(i).type].f, ArgsOf(i))
Converts(i) == ~Result(i).panics /\ ~Result(i).isErr
CallsFor(i) == LET Mine(x) == x.field = i IN SelectSeq(last.calls, Mine)

\* The per-field errors field i adds to the aggregate when the call gets to
\* it and it does not end the call.
FieldErrors(i) ==
    IF ~Tagged(i) THEN <<>>
    ELSE IF ~Registered(i)
    THEN <<[NoMsg EXCEPT !.kind = "noParser", !.type = Fld(i).type]>>
    ELSE IF ~AllResolved(i)
    THEN LET IsAbsent(k) == k \notin DOMAIN last.vals
             ks == SelectSeq(KeysOf(i), IsAbsent)
         IN  [n \in 1..Len(ks) |->
                 [NoMsg EXCEPT !.kind = "noValue", !.key = ks[n],
                               !.strct = target.name, !.field = FieldName(i)]]
    ELSE IF Result(i).panics
    THEN <<[NoMsg EXCEPT !.kind = "cannotPopulate", !.field = FieldName(i),
                         !.type = "panicked", !.fn = parsers[Fld(i).type].f,
                         !.detail = Result(i).p]>>
    ELSE IF Result(i).isErr
    THEN <<[NoMsg EXCEPT !.kind = "cannotPopulate", !.field = FieldName(i),
                         !.type = "returned", !.detail = Result(i).errText]>>
    ELSE <<>>

\* C3 as stated: every tagged field has a registered parser and every key
\* is in the mapping, so LoadFromMap returns nil and every tagged field
\* holds what its parser produces from the mapped strings.
C3_RoundTripAsStated ==
    (/\ Loaded
     /\ IsStructPtr
     /\ \A i \in 1..NF : Tagged(i) => (Registered(i) /\ Absent(i) = {}))
    => /\ last.err = Nil
       /\ \A i \in 1..NF : Tagged(i) => conf[i] = Result(i).val

\* Every tagged field can be converted: its parser is registered with as
\* many arguments as the tag has keys, a default tag has as many values as
\* keys, every key is mapped and the parser returns a value for the strings.
AllConvertible ==
    \A i \in 1..NF :
        Tagged(i) =>
            /\ Registered(i)
            /\ ~FailsFast(i)
            /\ Absent(i) = {}
            /\ Converts(i)

\* C3 (amended): round trip.  When every tagged field has a registered
\* parser of matching arity, default counts match, every key is mapped and
\* every parser returns a value for the mapped strings, LoadFromMap returns
\* nil and each tagged field holds the value its parser produced.
C3_RoundTrip ==
    (Loaded /\ IsStructPtr /\ AllConvertible)
    => /\ last.err = Nil
       /\ \A i \in 1..NF : Tagged(i) => conf[i] = Result(i).val

\* A record with two tagged fields of different types has been populated
\* from the mapping, each field by its own parser.
C3_Witness ==
    /\ Loaded
    /\ IsStructPtr
    /\ AllConvertible
    /\ NF = 2
    /\ Tagged(1) /\ Tagged(2)
    /\ Fld(1).type = "int" /\ Fld(2).type = "foo"
    /\ conf[1] = Value("int", 7, <<>>)
    /\ conf[2] = Value("foo", 0, <<"7">>)
    /\ last.err = Nil

\* C4: default fallback is per key.  For a tagged field whose default tag
\* has as many values as the env tag has keys, a present key gives its
\* mapped string and an absent key the default at the same position; no
\* missing-value error is reported for the field; the parser is called once
\* with that argument list and the field is set to what it produces.
C4_DefaultPerKey ==
    (Loaded /\ IsStructPtr)
    => \A i \in 1..NF :
          (Tagged(i) /\ Fld(i).hasDefault /\ ~DefaultCountBad(i))
          => /\ \A m \in Range(last.err.msgs) :
                    ~(m.kind = "noValue" /\ m.field = FieldName(i))
             /\ (Reached(i) /\ Registered(i) /\ ~ArityBad(i))
                => /\ CallsFor(i) =
                        <<[field |-> i, fn |-> parsers[Fld(i).type].f,
                           args |-> [j \in 1..Len(KeysOf(i)) |->
                                       IF KeysOf(i)[j] \in DOMAIN last.vals
                                       THEN last.vals[KeysOf(i)[j]]
                                       ELSE DefaultsOf(i)[j]]]>>
                   /\ Converts(i)
                      => (i \in Range(last.assigned) /\ conf[i] = Result(i).val)

\* A two-key field with defaults "8,9" was loaded from a mapping holding
\* only its first key: the parser got the mapped string and the second
\* default, and the field was set.
C4_Witness ==
    /\ Loaded
    /\ IsStructPtr
    /\ \E i \in 1..NF :
          /\ Tagged(i) /\ Fld(i).hasDefault /\ ~DefaultCountBad(i)
          /\ Len(KeysOf(i)) = 2
          /\ Absent(i) = {2}
          /\ i \in Range(last.assigned)
          /\ conf[i] = Value("foo", 0, <<"x", ":", "9">>)

\* C5: aggregate, not short-circuit.  In a record whose failures are all
\* per-field data errors, two fields that each fail (absent key with no
\* default, no parser for the type, parser error or panic) are both in the
\* one aggregate error the call returns, in either declaration order.
C5_BothFailuresReported ==
    (Loaded /\ IsStructPtr /\ RunsToEnd)
    => \A i \in 1..NF : \A j \in 1..NF :
          (i # j /\ FieldErrors(i) # <<>> /\ FieldErrors(j) # <<>>)
          => /\ last.err.agg
             /\ Range(FieldErrors(i)) \subseteq Range(last.err.msgs)
             /\ Range(FieldErrors(j)) \subseteq Range(last.err.msgs)
             /\ Len(last.err.msgs) >= Len(FieldErrors(i)) + Len(FieldErrors(j))

\* The first field's key is absent with no default, the second field's type
\* has no parser, and the returned error lists both.
C5_Witness ==
    /\ Loaded
    /\ IsStructPtr
    /\ NF = 2
    /\ RunsToEnd
    /\ Tagged(1) /\ Registered(1) /\ ~AllResolved(1)
    /\ Tagged(2) /\ ~Registered(2)
    /\ last.err.agg
    /\ Len(last.err.msgs) = 2
    /\ last.err.msgs[1].kind = "noValue"
    /\ last.err.msgs[2].kind = "noParser"

\* C6: fault containment.  A parser that panics when LoadFromMap calls it
\* does not unwind LoadFromMap: the call returns, the field is not set, the
\* next field is still examined, and (the call not ending early on a later
\* field) the returned aggregate holds a cannot-populate entry naming the
\* field, the parser function and the panic value.
C6_PanicContained ==
    Loaded
    => /\ ~last.panicked
       /\ \A k \in 1..Len(last.calls) :
             LET cl == last.calls[k]
             IN  Call(cl.fn, cl.args).panics
                 => /\ cl.field \notin Range(last.assigned)
                    /\ last.err # Nil
                    /\ cl.field < NF => (cl.field + 1) \in Range(last.visited)
                    /\ RunsToEnd
                       => /\ last.err.agg
                          /\ [NoMsg EXCEPT !.kind = "cannotPopulate",
                                 !.field = FieldName(cl.field), !.type = "panicked",
                                 !.fn = cl.fn, !.detail = Call(cl.fn, cl.args).p]
                                \in Range(last.err.msgs)

\* The first field's parser panicked, the call returned the aggregate with
\* that one entry, and the second field was still set.
C6_Witness ==
    /\ Loaded
    /\ NF = 2
    /\ Len(last.calls) = 2
    /\ last.calls[1].fn = "fooPanic"
    /\ last.calls[1].field = 1
    /\ last.err.agg
    /\ Len(last.err.msgs) = 1
    /\ last.err.msgs[1].kind = "cannotPopulate"
    /\ last.assigned = <<2>>
    /\ ~last.panicked

\* Message m is about field i: it names the field, its type or its tag.
About(m, i) ==
    \/ m.field = FieldName(i)
    \/ m.kind = "noParser" /\ m.type = Fld(i).type
    \/ m.kind \in {"defaultCount", "arity"} /\ m.tag = Fld(i).env

\* C7: a field without the env tag is never set by LoadFromMap and adds no
\* error, whatever its type and whatever the mapping holds: it keeps the
\* value it had before the call, no parser is called for it, and every
\* message of the returned error is about a tagged field.
C7_UntaggedUntouched ==
    [][ (Loaded' /\ IsStructPtr)
        => /\ \A i \in 1..NF :
                 ~Tagged(i)
                 => /\ conf'[i] = conf[i]
                    /\ i \notin Range(last'.assigned)
                    /\ \A k \in 1..Len(last'.calls) : last'.calls[k].field # i
           /\ \A m \in Range(last'.err.msgs) : \E i \in 1..NF : Tagged(i) /\ About(m, i)
           /\ (\A i \in 1..NF : ~Tagged(i)) => last'.err = Nil ]_vars

\* An untagged field of an unregistered type, filled in by the caller, still
\* holds that value after a call that set the tagged field next to it from a
\* non-empty mapping and returned nil.
C7_Witness ==
    /\ Loaded
    /\ IsStructPtr
    /\ NF = 2
    /\ ~Tagged(1)
    /\ ~Registered(1)
    /\ conf[1] = Value(Fld(1).type, 1, <<"p">>)
    /\ Tagged(2)
    /\ last.assigned = <<2>>
    /\ DOMAIN last.vals # {}
    /\ last.err = Nil

\* C8: when c is not a pointer, or points to something other than a struct,
\* LoadFromMap returns one plain (not aggregated) error at once: no field is
\* examined, no parser is called, nothing is set.
C8_BadTargetRejected ==
    (Loaded /\ ~IsStructPtr)
    => /\ last.err = Single([NoMsg EXCEPT !.kind =
                          IF target.kind # "ptr" THEN "notPointer" ELSE "notStructPointer"])
       /\ last.visited = <<>>
       /\ last.calls = <<>>
       /\ last.assigned = <<>>
       /\ conf \in {Fresh(target), Filled(target)}

\* A struct passed by value, whose one field could have been converted from
\* the mapping, has been refused and is as the caller left it.
C8_Witness ==
    /\ Loaded
    /\ target.kind = "struct"
    /\ "int" \in DOMAIN parsers
    /\ KA \in DOMAIN last.vals
    /\ last.vals[KA] = <<"7">>
    /\ conf = Fresh(target)
    /\ last.err # Nil

IsDefaultCountError(e) ==
    e # Nil /\ ~e.agg /\ e.msgs[1].kind = "defaultCount"

\* C9 as stated: a field whose default count differs from its key count
\* makes the whole call fail before any field is touched, so when the call
\* returns that error no field has been set, fields declared before the
\* offending one included.
C9_NothingTouchedAsStated ==
    (Loaded /\ IsStructPtr /\ \E k \in 1..NF : DefaultCountBad(k))
    => /\ last.err # Nil
       /\ IsDefaultCountError(last.err) => last.assigned = <<>>

\* C9 (amended): the default-count check is made field by field.  At the
\* first field that ends the call, if its default count differs from its
\* key count, LoadFromMap returns the default-count error for that field;
\* that field and the fields declared after it are not converted or set,
\* and no field after it is examined; the fields declared before it have
\* been processed, and those that converted stay set.
C9_FailsAtOffendingField ==
    (Loaded /\ IsStructPtr)
    => \A k \in 1..NF :
          (DefaultCountBad(k) /\ Reached(k))
          => /\ last.err = Single([NoMsg EXCEPT !.kind = "defaultCount",
                              !.tag = Fld(k).env, !.n = Len(KeysOf(k)),
                              !.dtag = Fld(k).default, !.m = Len(DefaultsOf(k))])
             /\ last.visited = [i \in 1..k |-> i]
             /\ \A i \in Range(last.assigned) : i < k
             /\ \A n \in 1..Len(last.calls) : last.calls[n].field < k
             /\ \A i \in 1..(k - 1) :
                   (Tagged(i) /\ Registered(i) /\ AllResolved(i) /\ Converts(i))
                   => (i \in Range(last.assigned) /\ conf[i] = Result(i).val)

\* The call returned the default-count error of the second field after it
\* had set the first.
C9_Witness ==
    /\ Loaded
    /\ IsStructPtr
    /\ NF = 2
    /\ DefaultCountBad(2)
    /\ IsDefaultCountError(last.err)
    /\ last.assigned = <<1>>
    /\ conf[1] = Value("int", 7, <<>>)

\* C10: when the loop gets to a tagged field whose number of keys differs
\* from the numArgs of the parser registered for its type, LoadFromMap
\* returns at once one plain (not aggregated) arity error: the parser is not
\* called for that field and no field declared after it is examined,
\* converted or set.
C10_ArityMismatchFailsFast ==
    (Loaded /\ IsStructPtr)
    => \A k \in 1..NF :
          (ArityBad(k) /\ ~DefaultCountBad(k) /\ Reached(k))
          => /\ last.err = Single([NoMsg EXCEPT !.kind = "arity",
                              !.type = Fld(k).type, !.n = parsers[Fld(k).type].numArgs,
                              !.tag = Fld(k).env, !.m = Len(KeysOf(k))])
             /\ last.visited = [i \in 1..k |-> i]
             /\ \A n \in 1..Len(last.calls) : last.calls[n].field < k
             /\ \A i \in Range(last.assigned) : i < k

\* A two-key field whose type has a one-argument parser stopped the call at
\* the first field; the second field, which the mapping could have filled,
\* was not examined.
C10_Witness ==
    /\ Loaded
    /\ IsStructPtr
    /\ NF = 2
    /\ ArityBad(1) /\ ~DefaultCountBad(1)
    /\ Len(KeysOf(1)) = 2
    /\ Tagged(2) /\ Registered(2) /\ ~FailsFast(2) /\ AllResolved(2)
    /\ last.err # Nil /\ ~last.err.agg
    /\ last.err.msgs[1].kind = "arity"
    /\ last.visited = <<1>>
    /\ last.assigned = <<>>

MissingFor(i, k) ==
    {n \in 1..Len(last.err.msgs) :
        last.err.msgs[n] = [NoMsg EXCEPT !.kind = "noValue", !.key = k,
                               !.strct = target.name, !.field = FieldName(i)]}

\* C12: for a tagged field without a default tag, when one of its keys is
\* absent from the mapping the parser is not called for the field and the
\* field is not set; and when the loop resolves the field's keys (its type
\* registered with matching arity, no field ending the call early) the
\* returned error has exactly one missing-value message per absent key,
\* naming the key, the struct type and the field, for every absent key and
\* for no present one.
C12_EachAbsentKeyReported ==
    (Loaded /\ IsStructPtr)
    => \A i \in 1..NF :
          (Tagged(i) /\ ~Fld(i).hasDefault /\ Absent(i) # {})
          => /\ i \notin Range(last.assigned)
             /\ CallsFor(i) = <<>>
             /\ (RunsToEnd /\ Registered(i))
                => \A j \in 1..Len(KeysOf(i)) :
                      Cardinality(MissingFor(i, KeysOf(i)[j])) =
                          IF j \in Absent(i) THEN 1 ELSE 0

\* Both keys of a two-key field without default are absent: the returned
\* error has the two missing-value messages, the parser was not called and
\* the field is still as it was.
C12_Witness ==
    /\ Loaded
    /\ IsStructPtr
    /\ RunsToEnd
    /\ \E i \in 1..NF :
          /\ Tagged(i) /\ ~Fld(i).hasDefault /\ Registered(i)
          /\ Absent(i) = {1, 2}
          /\ MissingFor(i, KA) # {} /\ MissingFor(i, KB) # {}
          /\ CallsFor(i) = <<>>
          /\ conf[i] = Zero(Fld(i).type)

Produces(fname, t) == \E f \in Funcs : f.name = fname /\ f.out[1] = t

\* C14: parsers are keyed by the exact type.  A field is only ever converted
\* by a function producing the field's own type; a tagged field whose type
\* has no entry is not converted and gets the no-parser error, whatever is
\* registered for another type with the same underlying type; and a
\* function is refused as a duplicate only when the entry stored is for the
\* very type it produces, so registering for the other type goes through.
C14_ExactTypeIdentity ==
    /\ \A t \in DOMAIN parsers : Produces(parsers[t].f, t)
    /\ \A f \in Funcs :
          (Registering /\ last.f = f.name /\ ValidShape(f))
          => IF last.err = Nil THEN parsers[f.out[1]].f = f.name
             ELSE /\ last.err.msgs[1].kind = "alreadyRegistered"
                  /\ last.err.msgs[1].type = f.out[1]
                  /\ Produces(parsers[f.out[1]].f, f.out[1])
    /\ (Loaded /\ IsStructPtr)
       => \A i \in 1..NF :
             /\ \A k \in 1..Len(last.calls) :
                   last.calls[k].field = i => Produces(last.calls[k].fn, Fld(i).type)
             /\ (Tagged(i) /\ ~Registered(i))
                => /\ CallsFor(i) = <<>>
                   /\ i \notin Range(last.assigned)
                   /\ RunsToEnd
                      => [NoMsg EXCEPT !.kind = "noParser", !.type = Fld(i).type]
                            \in Range(last.err.msgs)

\* With only foo registered a record with a foo field and a bar field on
\* the same key was loaded (the foo field set, the bar field left as it
\* was), and bar's own parser has then been registered without error.
C14_Witness ==
    /\ Registering
    /\ last.f = "barOK"
    /\ last.err = Nil
    /\ "foo" \in DOMAIN parsers
    /\ NF = 2
    /\ Fld(1).type = "foo" /\ Fld(2).type = "bar"
    /\ Underlying(Fld(1).type) = Underlying(Fld(2).type)
    /\ Tagged(1) /\ Tagged(2) /\ Fld(1).env = Fld(2).env
    /\ conf[1] = Value("foo", 0, <<"7">>)
    /\ conf[2] = Zero("bar")

\* Position of the first "=" of entry e, 0 when it has none.
FirstEq(e) ==
    IF \E p \in 1..Len(e) : e[p] = "="
    THEN CHOOSE p \in 1..Len(e) : e[p] = "=" /\ \A q \in 1..(p - 1) : e[q] # "="
    ELSE 0
KeyOf(e) == IF FirstEq(e) = 0 THEN e ELSE SubSeq(e, 1, FirstEq(e) - 1)
ValueOf(e) == IF FirstEq(e) = 0 THEN <<>> ELSE SubSeq(e, FirstEq(e) + 1, Len(e))

\* C15: the mapping Load makes from the environment has, for every entry,
\* the text before the entry's first "=" as a key; the key's value is
\* everything after that first "=", further "=" included, and the empty
\* string for an entry without "=" (of two entries with one key, the later
\* gives the value); it has no other key.
C15_SplitOnFirstEq ==
    Loaded
    => /\ DOMAIN last.vals = {KeyOf(environ[n]) : n \in 1..Len(environ)}
       /\ \A n \in 1..Len(environ) :
             (\A m \in (n + 1)..Len(environ) : KeyOf(environ[m]) # KeyOf(environ[n]))
             => last.vals[KeyOf(environ[n])] = ValueOf(environ[n])

\* The environment holds B without "=" and A=7=x: the field keyed B holds
\* the parser's result for the empty string (its default was not taken) and
\* the field keyed A the result for 7=x.
C15_Witness ==
    /\ Loaded
    /\ environ = << <<"B">>, <<"A", "=", "7", "=", "x">> >>
    /\ last.vals[KB] = <<>>
    /\ last.vals[KA] = <<"7", "=", "x">>
    /\ conf[1] = Value("foo", 0, <<"7", "=", "x">>)
    /\ conf[2] = Value("foo", 0, <<>>)

\* C16: LoadFromMap on a pointer to a struct returns nil exactly when the
\* call met no error (no field ending it early, no per-field data error);
\* and when it returns nil every tagged field has been set, by one call of
\* its parser, to the value the parser produces from the field's resolved
\* strings.
C16_NilMeansAllAssigned ==
    (Loaded /\ IsStructPtr)
    => /\ (last.err = Nil) <=> (RunsToEnd /\ \A i \in 1..NF : FieldErrors(i) = <<>>)
       /\ last.err = Nil
          => \A i \in 1..NF :
                Tagged(i)
                => /\ Len(CallsFor(i)) = 1
                   /\ CallsFor(i)[1].args = ArgsOf(i)
                   /\ i \in Range(last.assigned)
                   /\ conf[i] = Result(i).val

\* An empty mapping and two tagged fields with defaults: the call returned
\* nil and both fields hold what their parsers make of the defaults.
C16_Witness ==
    /\ Loaded
    /\ IsStructPtr
    /\ NF = 2
    /\ DOMAIN last.vals = {}
    /\ Tagged(1) /\ Tagged(2)
    /\ last.err = Nil
    /\ last.assigned = <<1, 2>>
    /\ conf[1] = Value("int", 7, <<>>)
    /\ conf[2] = Value("foo", 0, <<"8", ":", "9">>)

\* The per-field errors of fields 1..n, field after field.
RECURSIVE ErrorsUpTo(_)
ErrorsUpTo(n) == IF n = 0 THEN <<>> ELSE ErrorsUpTo(n - 1) \o FieldErrors(n)

\* C17: the aggregate LoadFromMap returns lists the messages in the order
\* they were recorded: the messages of a field declared earlier come before
\* those of a field declared later, and the missing-value messages of one
\* field follow the order of the keys in its tag.
C17_MessagesInRecordedOrder ==
    (Loaded /\ IsStructPtr /\ RunsToEnd)
    => /\ last.err.msgs = ErrorsUpTo(NF)
       /\ last.err.agg <=> ErrorsUpTo(NF) # <<>>

\* Both keys of the first field are absent and the second field's type has
\* no parser: the aggregate lists the message for the first key, then the
\* one for the second key, then the second field's.
C17_Witness ==
    /\ Loaded
    /\ IsStructPtr
    /\ NF = 2
    /\ RunsToEnd
    /\ last.err.agg
    /\ Len(last.err.msgs) = 3
    /\ last.err.msgs[1].kind = "noValue" /\ last.err.msgs[1].key = KA
    /\ last.err.msgs[1].field = FieldName(1)
    /\ last.err.msgs[2].kind = "noValue" /\ last.err.msgs[2].key = KB
    /\ last.err.msgs[2].field = FieldName(1)
    /\ last.err.msgs[3].kind = "noParser" /\ last.err.msgs[3].type = Fld(2).type

\* C18: the entries of a Loader only grow.  A step changes the parsers map
\* only if it is a RegisterParser call returning nil, and then it adds one
\* entry, for the type the function produces, which had none; every entry
\* stored before is still there, unchanged; a RegisterParser call returning
\* an error and a LoadFromMap call leave the map as it was.
C18_EntriesOnlyGrow ==
    [][ /\ \A t \in DOMAIN parsers : t \in DOMAIN parsers' /\ parsers'[t] = parsers[t]
        /\ parsers' # parsers
           => /\ Registering'
              /\ last'.err = Nil
              /\ \E f \in Funcs :
                    /\ last'.f = f.name
                    /\ f.out[1] \notin DOMAIN parsers
                    /\ DOMAIN parsers' = DOMAIN parsers \cup {f.out[1]}
        /\ (Registering' /\ last'.err = Nil)
           => Cardinality(DOMAIN parsers') = Cardinality(DOMAIN parsers) + 1
        /\ (Registering' /\ last'.err # Nil) => parsers' = parsers
        /\ Loaded' => parsers' = parsers ]_vars

\* After registrations and a load that set a tagged field, a third type has
\* just been registered and the two entries stored before are still there.
C18_Witness ==
    /\ Registering
    /\ last.err = Nil
    /\ last.f = "barOK"
    /\ DOMAIN parsers = {"int", "foo", "bar"}
    /\ parsers["int"] = parser("ParseInt", 1)
    /\ parsers["foo"] = parser("foo2", 2)
    /\ IsStructPtr
    /\ \E i \in 1..NF : Tagged(i) /\ conf[i] # Zero(Fld(i).type)

\* C19: Loaders share nothing.  No two Loaders refer to one map; a step
\* leaves the entries of every Loader other than the one called as they
\* were (the default loader's included); RegisterParser on a Loader returns
\* the already-registered error exactly when that Loader's own map has an
\* entry for the type, whatever other Loaders hold; and LoadFromMap on a
\* Loader goes by that Loader's own map: a field it sets has its type
\* registered on the Loader called, and a field it examines whose type is
\* not registered there makes the call fail, with the no-parser message
\* when the aggregate is returned.
C19_LoadersIndependent ==
    [][ /\ \A l \in 1..Len(loaders) : \A k \in 1..Len(loaders) :
              l # k => loaders[l].parsers # loaders[k].parsers
        /\ parsers' = parsers
        /\ \A l \in 1..Len(loaders) :
              /\ l # recv' => heap'[loaders'[l].parsers] = Map(l)
              /\ \A f \in LoaderFuncs :
                    (Registering' /\ recv' = l /\ last'.f = f.name)
                    => IF f.out[1] \in DOMAIN Map(l)
                       THEN /\ last'.err # Nil
                            /\ last'.err.msgs[1].kind = "alreadyRegistered"
                       ELSE /\ last'.err = Nil
                            /\ heap'[loaders'[l].parsers][f.out[1]] = parser(f.name, Len(f.in))
              /\ (Loaded' /\ recv' = l)
                 => /\ \A i \in Range(last'.assigned) : Fld(i).type \in DOMAIN Map(l)
                    /\ \A i \in Range(last'.visited) :
                          Fld(i).type \notin DOMAIN Map(l)
                          => /\ last'.err # Nil
                             /\ last'.err.agg
                                => [NoMsg EXCEPT !.kind = "noParser", !.type = Fld(i).type]
                                      \in Range(last'.err.msgs) ]_vars

\* The first Loader, made by New(), holds fooOK for foo; foo2 has just been
\* registered for foo on the second, made by Empty(), without error, and
\* int, registered on the first by New(), has no entry on the second.
C19_Witness ==
    /\ Registering
    /\ recv = 2
    /\ last.f = "foo2"
    /\ last.err = Nil
    /\ Len(loaders) = 2
    /\ DOMAIN Map(1) = {DefaultParsers[n].out[1] : n \in 1..Len(DefaultParsers)} \cup {"foo"}
    /\ Map(1)["foo"] = parser("fooOK", 1)
    /\ Map(1)["int"] = parser("ParseInt", 1)
    /\ Map(2) = [t \in {"foo"} |-> parser("foo2", 2)]

\* What call g returns and leaves in its record when it runs alone.
Alone(g) ==
    LoadFromMap(parsers, goroutines[g].vals, goroutines[g].c, Fresh(goroutines[g].c))

\* The contents of a record as its holder sees them: a field holding the
\* pointer to the template object shows the body t of that object.
Contents(cf, t) ==
    [i \in DOMAIN cf |-> IF cf[i] = TheTemplate THEN [cf[i] EXCEPT !.s = t] ELSE cf[i]]

\* C20: on a seeded Loader on which nothing is being registered, LoadFromMap
\* calls running at the same time, each with its own record, do not
\* disturb one another: under every interleaving of their steps a call
\* returns the error, and leaves in its record the contents, it returns and
\* leaves when run alone; and no step changes the Loader's entries.
C20_ConcurrentLoadsAsAlone ==
    [][ /\ parsers' = parsers
        /\ \A g \in DOMAIN goroutines :
              (~goroutines[g].done /\ goroutines'[g].done)
              => /\ goroutines'[g].st.err = Alone(g).err
                 /\ Contents(goroutines'[g].st.conf, tmpl') =
                        Contents(Alone(g).conf, TemplateAfter(<<>>, Alone(g).calls)) ]_vars

\* Function n of list cannot be registered after those before it: its shape
\* is wrong, or a function before it produces the same type.
Refused(list, n) ==
    \/ ~ValidShape(list[n])
    \/ \E m \in 1..(n - 1) : ValidShape(list[m]) /\ list[m].out[1] = list[n].out[1]
FirstRefused(list) ==
    CHOOSE n \in 1..Len(list) : Refused(list, n) /\ \A m \in 1..(n - 1) : ~Refused(list, m)
\* One entry per function of the list: the function and its parameter count.
EntriesOf(list) ==
    [t \in {list[n].out[1] : n \in 1..Len(list)} |->
        LET n == CHOOSE k \in 1..Len(list) : list[k].out[1] = t
        IN  parser(list[n].name, Len(list[n].in))]
\* What New() returns for the list: nil and the Loader holding the list's
\* entries, or the error of the first function refused and no Loader.
NewGives(list, err, made, m) ==
    IF \A n \in 1..Len(list) : ~Refused(list, n)
    THEN err = Nil /\ made /\ m = EntriesOf(list)
    ELSE LET f == list[FirstRefused(list)]
         IN  /\ ~made
             /\ err # Nil /\ ~err.agg
             /\ err.msgs[1].fn = f.name
             /\ IF ValidShape(f)
                THEN err.msgs[1].kind = "alreadyRegistered" /\ err.msgs[1].type = f.out[1]
                ELSE err.msgs[1].kind \in
                        {"notFunc", "wantArgs", "nonStringArg", "wantTwoReturns", "lastNotError"}

\* C21: New() registers the functions of DefaultParsers in list order on an
\* empty Loader.  When none is refused it returns nil and a new Loader with
\* one entry per function, holding the function and its number of
\* parameters - for the list the package declares, one entry of numArgs 1
\* for each of its produced types.  When one is refused (wrong shape, or
\* the type of an earlier one) New returns the error of the first refused
\* and no Loader.  init() sets the default loader from New() and panics when
\* New() returns an error, after which nothing runs.  Empty() returns a new
\* Loader without entries.
C21_NewRegistersBuiltins ==
    [][ /\ last'.op = "New"
           => /\ NewGives(pkg.DefaultParsers, last'.err, Len(loaders') = Len(loaders) + 1,
                          heap'[Len(heap')])
              /\ last'.err = Nil => loaders'[Len(loaders')].parsers = Len(heap')
              /\ last'.err # Nil => (loaders' = loaders /\ heap' = heap)
              /\ pkg.DefaultParsers = DefaultParsers
                 => /\ last'.err = Nil
                    /\ Cardinality(DOMAIN heap'[Len(heap')]) = Len(DefaultParsers)
                    /\ \A n \in 1..Len(DefaultParsers) :
                          heap'[Len(heap')][DefaultParsers[n].out[1]] =
                              parser(DefaultParsers[n].name, 1)
        /\ last'.op = "init"
           => /\ NewGives(pkg.DefaultParsers, last'.err, pkg'.defaultLoader = "set", parsers')
              /\ last'.panicked <=> last'.err # Nil
              /\ pkg'.init = IF last'.err = Nil THEN "done" ELSE "panicked"
        /\ last'.op = "Empty"
           => /\ Len(loaders') = Len(loaders) + 1
              /\ heap'[loaders'[Len(loaders')].parsers] = Empty
        /\ pkg.init # "panicked"
        /\ \A l \in 1..Len(loaders) : loaders'[l] = loaders[l] ]_vars

\* init() made the default loader from the list the package declares, with
\* its 23 entries, and Empty() a Loader holding none; then a list whose
\* second function has a non-string parameter was assigned to
\* DefaultParsers and New() has just returned that function's error and no
\* Loader.
C21_Witness ==
    /\ pkg.init = "done"
    /\ pkg.defaultLoader = "set"
    /\ parsers = EntriesOf(DefaultParsers)
    /\ Cardinality(DOMAIN parsers) = 23
    /\ last.op = "New"
    /\ last.err # Nil
    /\ last.err.msgs[1].kind = "nonStringArg"
    /\ last.err.msgs[1].fn = "intArg"
    /\ Len(loaders) = 1
    /\ Map(1) = Empty

RulesBroken(ps, f) ==
    {r \in 1..5 :
        \/ r = 1 /\ f.kind # "func"
        \/ r = 2 /\ (Len(f.in) < 1 \/ \E n \in 1..Len(f.in) : f.in[n] # "string")
        \/ r = 3 /\ Len(f.out) # 2
        \/ r = 4 /\ (Len(f.out) < 2 \/ f.out[2] # "error")
        \/ r = 5 /\ Len(f.out) >= 1 /\ f.out[1] \in DOMAIN ps}
\* The errors that report a broken rule r.
KindsOfRule(r) ==
    CASE r = 1 -> {"notFunc"}
      [] r = 2 -> {"wantArgs", "nonStringArg"}
      [] r = 3 -> {"wantTwoReturns"}
      [] r = 4 -> {"lastNotError"}
      [] r = 5 -> {"alreadyRegistered"}
Least(S) == CHOOSE r \in S : \A q \in S : r <= q

\* C23: RegisterParser checks its rules in a fixed order - callable,
\* parameters (count, then types), number of results, error as second
\* result, no entry yet for the produced type - and returns one error, that
\* of the first rule broken in this order, nil when none is broken.  A
\* function breaking several rules gets the error of the earliest; a
\* function of wrong shape whose produced type has an entry gets the shape
\* error, not the already-registered error; a refused function leaves the
\* entries as they were.
C23_FirstBrokenRuleReported ==
    [][ \A f \in ShapeFuncs :
          (Registering' /\ last'.f = f.name)
          => IF RulesBroken(parsers, f) = {}
             THEN last'.err = Nil
             ELSE /\ last'.err # Nil
                  /\ ~last'.err.agg
                  /\ Len(last'.err.msgs) = 1
                  /\ last'.err.msgs[1].kind \in KindsOfRule(Least(RulesBroken(parsers, f)))
                  /\ (Len(f.in) < 1 /\ f.kind = "func") => last'.err.msgs[1].kind = "wantArgs"
                  /\ parsers' = parsers ]_vars

\* A function with an int parameter and three results, producing foo, has
\* just been refused for its parameter on a Loader that holds an entry for
\* foo: of the rules it breaks (parameters, number of results, second
\* result, entry present) the parameter rule is the one reported.
C23_Witness ==
    /\ Registering
    /\ last.f = "intArgThreeOut"
    /\ "foo" \in DOMAIN parsers
    /\ \E f \in ShapeFuncs : f.name = last.f /\ RulesBroken(parsers, f) = {2, 3, 4, 5}
    /\ last.err # Nil
    /\ last.err.msgs[1].kind = "nonStringArg"

\* C24: when the function a field's parser wraps returns a non-nil error,
\* the adapter hands back the error's text and not the value returned with
\* it: the field keeps the value it had before the call, the loop goes on
\* to the field declared after it (which is set when it converts), and
\* when no field ends the call early the returned aggregate holds exactly
\* one message for the field, the cannot-populate message with the error's
\* text.
C24_ParserErrorRecordedFieldKept ==
    [][ (Loaded' /\ IsStructPtr)
        => \A i \in 1..NF : \A k \in 1..Len(last'.calls) :
              LET cl == last'.calls[k]
                  res == Call(cl.fn, cl.args)
              IN  (cl.field = i /\ ~res.panics /\ res.isErr)
                  => /\ conf'[i] = conf[i]
                     /\ i \notin Range(last'.assigned)
                     /\ last'.err # Nil
                     /\ i < NF
                        => /\ (i + 1) \in Range(last'.visited)
                           /\ (/\ Tagged(i + 1) /\ Registered(i + 1) /\ ~FailsFast(i + 1)
                               /\ AllResolved(i + 1)' /\ Converts(i + 1)')
                              => /\ (i + 1) \in Range(last'.assigned)
                                 /\ conf'[i + 1] = Result(i + 1)'.val
                     /\ RunsToEnd
                        => /\ last'.err.agg
                           /\ {n \in 1..Len(last'.err.msgs) :
                                  last'.err.msgs[n].field = FieldName(i)}
                              = {n \in 1..Len(last'.err.msgs) :
                                  last'.err.msgs[n] =
                                      [NoMsg EXCEPT !.kind = "cannotPopulate",
                                          !.field = FieldName(i), !.type = "returned",
                                          !.detail = res.errText]}
                           /\ Cardinality({n \in 1..Len(last'.err.msgs) :
                                  last'.err.msgs[n].field = FieldName(i)}) = 1 ]_vars

\* The first field, an int set to 7 by an earlier call, still holds 7 after
\* a call in which its parser returned an error for the string x; the
\* call went on to the second field and set it, and returned the aggregate
\* with the one message.
C24_Witness ==
    /\ Loaded
    /\ IsStructPtr
    /\ NF = 2
    /\ Fld(1).type = "int" /\ Fld(1).env = KA /\ Fld(2).type = "foo"
    /\ KA \in DOMAIN last.vals
    /\ last.vals[KA] = <<"x">>
    /\ conf[1] = Value("int", 7, <<>>)
    /\ last.assigned = <<2>>
    /\ conf[2] = Value("foo", 0, <<"x">>)
    /\ last.err.agg
    /\ last.err.msgs = <<[NoMsg EXCEPT !.kind = "cannotPopulate", !.field = FieldName(1),
                              !.type = "returned", !.detail = "invalid syntax"]>>

\* C25: a call that returns an aggregate has still populated what it could.
\* When LoadFromMap returns a non-nil aggregate, every tagged field whose
\* type has a parser of matching arity, whose keys all resolved (from the
\* mapping or the defaults) and whose parser returned a value has been set
\* to that value, be it declared before or after the fields that failed;
\* and only the fields that failed are not among those set.
C25_FailingCallPopulatesRest ==
    (Loaded /\ IsStructPtr /\ last.err # Nil /\ last.err.agg)
    => /\ \A i \in 1..NF :
             (Tagged(i) /\ Registered(i) /\ ~ArityBad(i) /\ AllResolved(i) /\ Converts(i))
             => /\ i \in Range(last.assigned)
                /\ conf[i] = Result(i).val
       /\ \A i \in 1..NF : (Tagged(i) /\ i \notin Range(last.assigned)) => FieldErrors(i) # <<>>
       /\ \E i \in 1..NF : FieldErrors(i) # <<>>

\* The first field's key is absent and it has no default; the second
\* field, declared after it, holds its converted value, and the call
\* returned the aggregate with the first field's message.
C25_Witness ==
    /\ Loaded
    /\ IsStructPtr
    /\ NF = 2
    /\ last.err # Nil /\ last.err.agg
    /\ Tagged(1) /\ Registered(1) /\ ~AllResolved(1)
    /\ last.err.msgs[1].kind = "noValue"
    /\ last.err.msgs[1].field = FieldName(1)
    /\ Tagged(2) /\ Fld(2).type = "int"
    /\ last.assigned = <<2>>
    /\ conf[2] = Value("int", 7, <<>>)
    /\ conf[1] = Zero(Fld(1).type)

\* The error a fail-fast return at field k gives: the default-count error
\* when the field's default count is wrong, else the arity error.
ShapeErrorAt(k) ==
    IF DefaultCountBad(k)
    THEN Single([NoMsg EXCEPT !.kind = "defaultCount", !.tag = Fld(k).env,
                     !.n = Len(KeysOf(k)), !.dtag = Fld(k).default, !.m = Len(DefaultsOf(k))])
    ELSE Single([NoMsg EXCEPT !.kind = "arity", !.type = Fld(k).type,
                     !.n = parsers[Fld(k).type].numArgs, !.tag = Fld(k).env,
                     !.m = Len(KeysOf(k))])

PresentEmpty(i, j) ==
    KeysOf(i)[j] \in DOMAIN last.vals /\ last.vals[KeysOf(i)[j]] = <<>>

\* C27: key resolution goes by presence.  An environment entry without "="
\* or with nothing after it puts its key in the mapping with the empty
\* string; for a field key present with the empty string no missing-value
\* message is recorded and, when the field's parser is called, the argument
\* at the key's position is the empty string, not the default declared for
\* it; the field is then set to what the parser makes of it.
C27_PresentEmptyIsPresent ==
    Loaded
    => /\ \A n \in 1..Len(environ) :
             (/\ ValueOf(environ[n]) = <<>>
              /\ \A m \in (n + 1)..Len(environ) : KeyOf(environ[m]) # KeyOf(environ[n]))
             => /\ KeyOf(environ[n]) \in DOMAIN last.vals
                /\ last.vals[KeyOf(environ[n])] = <<>>
       /\ \A i \in 1..NF : \A j \in 1..Len(KeysOf(i)) :
             (Tagged(i) /\ PresentEmpty(i, j))
             => /\ MissingFor(i, KeysOf(i)[j]) = {}
                /\ \A m \in Range(last.err.msgs) :
                      ~(m.kind = "noValue" /\ m.field = FieldName(i) /\ m.key = KeysOf(i)[j])
                /\ (Registered(i) /\ Reached(i) /\ ~FailsFast(i) /\ AllResolved(i))
                   => /\ Len(CallsFor(i)) = 1
                      /\ CallsFor(i)[1].args[j] = <<>>
                      /\ Converts(i)
                         => (i \in Range(last.assigned) /\ conf[i] = Result(i).val)

\* The environment is A= and B: the field keyed A, without default, and
\* the field keyed B, with default 7, were both converted from the empty
\* string and the call returned nil.
C27_Witness ==
    /\ Loaded
    /\ environ = << <<"A", "=">>, <<"B">> >>
    /\ NF = 2
    /\ PresentEmpty(1, 1) /\ ~Fld(1).hasDefault
    /\ PresentEmpty(2, 1) /\ Fld(2).hasDefault /\ DefaultsOf(2) = << <<"7">> >>
    /\ last.calls = << [field |-> 1, fn |-> "fooOK", args |-> << <<>> >>],
                       [field |-> 2, fn |-> "fooOK", args |-> << <<>> >>] >>
    /\ last.assigned = <<1, 2>>
    /\ last.err = Nil

\* The messages of the returned error of the given kind.
MsgsOfKind(kind) == {n \in 1..Len(last.err.msgs) : last.err.msgs[n].kind = kind}

\* C28: for a tagged field the loop gets to, LoadFromMap checks the default
\* count first, then whether the type has a parser, then the arity, then
\* the keys.  A default-count mismatch ends the call with that error
\* whether or not the type has a parser, and no no-parser message is
\* returned for the field.  Otherwise a type without parser adds one
\* no-parser message for the field and nothing else: no missing-value
\* message even when keys are absent with no default, and no parser call.
\* Otherwise an arity mismatch ends the call with the arity error, whatever
\* keys are absent.  Only otherwise are the keys resolved: absent keys with
\* no default add their missing-value messages and the parser is not called.
C28_ChecksInOrder ==
    (Loaded /\ IsStructPtr)
    => /\ \A i \in 1..NF :
             (Tagged(i) /\ Reached(i))
             => /\ DefaultCountBad(i)
                   => /\ last.err = ShapeErrorAt(i)
                      /\ last.err.msgs[1].kind = "defaultCount"
                      /\ CallsFor(i) = <<>>
                /\ (~DefaultCountBad(i) /\ ~Registered(i))
                   => /\ CallsFor(i) = <<>>
                      /\ i \notin Range(last.assigned)
                      /\ last.err # Nil
                      /\ \A k \in Range(KeysOf(i)) : MissingFor(i, k) = {}
                      /\ \A m \in Range(last.err.msgs) : m.field # FieldName(i)
                /\ (~DefaultCountBad(i) /\ Registered(i) /\ ArityBad(i))
                   => /\ last.err = ShapeErrorAt(i)
                      /\ last.err.msgs[1].kind = "arity"
                      /\ CallsFor(i) = <<>>
                /\ (~FailsFast(i) /\ Registered(i) /\ ~AllResolved(i))
                   => /\ CallsFor(i) = <<>>
                      /\ RunsToEnd
                         => \A j \in Absent(i) : MissingFor(i, KeysOf(i)[j]) # {}
       /\ RunsToEnd
          => Cardinality(MsgsOfKind("noParser")) =
                 Cardinality({i \in 1..NF : Tagged(i) /\ ~Registered(i)})

\* Neither field's type has a parser.  The first field, its two keys absent
\* and without default, led to no missing-value message and the loop went
\* on; the second, whose default has one value for two keys, ended the call
\* with the default-count error.
C28_Witness ==
    /\ Loaded
    /\ IsStructPtr
    /\ NF = 2
    /\ Tagged(1) /\ ~Registered(1) /\ ~Fld(1).hasDefault /\ Absent(1) = {1, 2}
    /\ Tagged(2) /\ ~Registered(2) /\ DefaultCountBad(2)
    /\ last.visited = <<1, 2>>
    /\ last.calls = <<>>
    /\ last.err = ShapeErrorAt(2)
    /\ MsgsOfKind("noParser") = {}

\* C29: in one LoadFromMap call a field's parser is called at most once,
\* and a call made is for a tagged field whose type has an entry, with the
\* function of that entry, after all the field's keys resolved, with as
\* many strings as the entry's numArgs (the resolved strings, in order);
\* no call is made for an untagged field, for a field with an absent key
\* and no default, for a field that ends the call early or any field after
\* it, or when c is not a pointer to a struct; calls are made in the order
\* of the fields.
C29_ParserCalledOnceWhenResolved ==
    Loaded
    => /\ ~IsStructPtr => last.calls = <<>>
       /\ \A i \in 1..NF : Len(CallsFor(i)) <= 1
       /\ \A k \in 1..Len(last.calls) :
             LET i == last.calls[k].field
             IN  /\ i \in 1..NF
                 /\ Tagged(i)
                 /\ Registered(i)
                 /\ last.calls[k].fn = parsers[Fld(i).type].f
                 /\ Len(last.calls[k].args) = parsers[Fld(i).type].numArgs
                 /\ Len(last.calls[k].args) = Len(KeysOf(i))
                 /\ AllResolved(i)
                 /\ last.calls[k].args = ArgsOf(i)
                 /\ \A j \in 1..i : ~FailsFast(j)
                 /\ \A n \in 1..(k - 1) : last.calls[n].field < i
       /\ IsStructPtr
          => \A i \in 1..NF :
                (\/ ~Tagged(i)
                 \/ ~Registered(i)
                 \/ ~AllResolved(i)
                 \/ \E j \in 1..i : FailsFast(j))
                => CallsFor(i) = <<>>

\* A two-argument parser is registered for foo.  The first field, both its
\* keys taken from its defaults, had the parser called once with two
\* strings; the second, of the same type with one of its two keys absent
\* and no default, had no call.
C29_Witness ==
    /\ Loaded
    /\ IsStructPtr
    /\ NF = 2
    /\ "foo" \in DOMAIN parsers
    /\ parsers["foo"].numArgs = 2
    /\ Fld(1).type = "foo" /\ Fld(2).type = "foo"
    /\ Fld(1).hasDefault /\ Absent(1) = {2}
    /\ ~Fld(2).hasDefault /\ Absent(2) = {2}
    /\ last.calls = <<[field |-> 1, fn |-> "foo2", args |-> <<last.vals[KA], <<"9">>>>]>>
    /\ last.assigned = <<1>>
    /\ last.err.agg
    /\ MsgsOfKind("noValue") = {1}

\* Calls g and h register for the same type.
SameType(g, h) ==
    /\ ValidShape(goroutines[g].f) /\ ValidShape(goroutines[h].f)
    /\ goroutines[g].f.out[1] = goroutines[h].f.out[1]

\* C30: the duplicate check and the assignment of RegisterParser are two
\* steps.  With calls on one Loader left to interleave, a call for a type
\* returns nil exactly when no call for the type had made its assignment
\* when it read the map - so two calls for one type that both read before
\* either wrote both return nil - and the entry stored for a type is that
\* of the call that assigned last, the earlier one replaced: the first
\* registration does not win.
C30_UnserializedRegisterOverwrites ==
    /\ \A g \in DOMAIN goroutines :
          LET me == goroutines[g]
          IN  /\ me.at > 0 <=> (me.pc = "done" /\ me.err = Nil)
              /\ (me.pc # "check" /\ ValidShape(me.f))
                 => (me.err = Nil
                     <=> \A h \in DOMAIN goroutines :
                            (h # g /\ SameType(g, h) /\ goroutines[h].at > 0)
                            => goroutines[h].at > me.readAt)
              /\ me.at > 0
                 => /\ me.f.out[1] \in DOMAIN parsers
                    /\ (\A h \in DOMAIN goroutines :
                            SameType(g, h) => goroutines[h].at <= me.at)
                       => parsers[me.f.out[1]] = parser(me.f.name, Len(me.f.in))
    /\ \A t \in DOMAIN parsers :
          \E g \in DOMAIN goroutines : goroutines[g].at > 0 /\ goroutines[g].f.out[1] = t

\* Two calls for foo, the first with fooOK and the second with foo2, both
\* read the map before either assigned; both have returned nil, fooOK was
\* stored first, and the entry for foo is now foo2.
C30_Witness ==
    /\ ~Crashed
    /\ goroutines[1].f.name = "fooOK" /\ goroutines[2].f.name = "foo2"
    /\ goroutines[1].pc = "done" /\ goroutines[2].pc = "done"
    /\ goroutines[1].err = Nil /\ goroutines[2].err = Nil
    /\ goroutines[1].readAt = 0 /\ goroutines[2].readAt = 0
    /\ goroutines[1].at = 1 /\ goroutines[2].at = 2
    /\ parsers["foo"] = parser("foo2", 2)

====
